---- MODULE Spec2Model ----
(***************************************************************************)
(* A model of the ORCID parser library (src/src/orcid-parser.ts, with the  *)
(* legacy variant src/src/index.ts and the type vocabulary of              *)
(* src/src/constants.ts): the query utilities, the identifier normalizer,  *)
(* the response parser and the Orcid client with its work cache.           *)
(***************************************************************************)
EXTENDS Integers, Sequences, FiniteSets, TLC

VARIABLES
    ws,          \* query utilities: the collection handed to sortByDate / getStats
    sortOrder,   \* query utilities: the order of the sortByDate call, "none" before it
    sorted,      \* query utilities: the array sortByDate returned
    stats,       \* query utilities: the object getStats returned
    statsDone,   \* query utilities: whether getStats(ws) has returned
    idInput,     \* identifier normalizer: the identifier string handed in
    idOutput,    \* identifier normalizer: the result of _sanitizeOrcidId
    idAgain,     \* identifier normalizer: the result of sanitizing idOutput again
    idStep,      \* identifier normalizer: how many times the normalizer was applied
    rawInput,    \* response parser: the raw registry object
    parsed,      \* response parser: the record the parser returned
    parsedBy,    \* response parser: "none", or the module whose _parseWork ran
    ctorState,   \* client: "not called", "threw" or "constructed"
    ctorArg,     \* client: the identifier handed to the last new Orcid(...)
    ctorError,   \* client: the message of the error the constructor threw
    orcidId,     \* client: this.orcidId
    baseURL,     \* client: this.baseURL
    timeout,     \* client: this.timeout
    works,       \* client: this.works, the work cache
    calls,       \* client: the method calls made on the instance
    utilCall,    \* utilities: the call of a pure function, [op |-> "none"] before it
    utilResult   \* utilities: what that call returned

queryVars == <<ws, sortOrder, sorted, stats, statsDone>>
idVars == <<idInput, idOutput, idAgain, idStep>>
parserVars == <<rawInput, parsed, parsedBy>>
clientVars == <<ctorState, ctorArg, ctorError, orcidId, baseURL, timeout, works, calls>>
utilVars == <<utilCall, utilResult>>
vars == <<queryVars, idVars, parserVars, clientVars, utilVars>>

(***************************************************************************)
(* JavaScript values.  A value carries its runtime type, so that undefined, *)
(* null, NaN, numbers and strings stay distinct: typeof NaN is "number",   *)
(* and ?? replaces only undefined and null.                                *)
(***************************************************************************)
Undefined == [t |-> "undefined"]
Null == [t |-> "null"]
NaN == [t |-> "NaN"]
Num(n) == [t |-> "number", v |-> n]
Str(s) == [t |-> "string", v |-> s]
Arr(s) == [t |-> "array", v |-> s]
\* an object: a finite map from property names to values
Obj(f) == [t |-> "object", v |-> f]
EmptyObj == Obj([k \in {} |-> Undefined])

\* o[k] on a non-nullish o: a property an object does not have reads as undefined
Get(o, k) == IF o.t = "object" /\ k \in DOMAIN o.v THEN o.v[k] ELSE Undefined

\* o?.[k]
OptGet(o, k) == IF o.t \in {"undefined", "null"} THEN Undefined ELSE Get(o, k)

\* !!x for the values of the model
Truthy(x) ==
    CASE x.t \in {"undefined", "null", "NaN"} -> FALSE
      [] x.t = "number" -> x.v # 0
      [] x.t = "string" -> x.v # ""
      [] OTHER -> TRUE

\* typeof x
TypeOf(x) == IF x.t \in {"number", "NaN"} THEN "number"
             ELSE IF x.t = "null" THEN "object" ELSE x.t

\* x ?? d
Coalesce(x, d) == IF x.t \in {"undefined", "null"} THEN d ELSE x

\* x - y on numbers: NaN is contagious
JsSub(x, y) == IF x.t = "number" /\ y.t = "number" THEN Num(x.v - y.v) ELSE NaN

(***************************************************************************)
(* new Date(year, monthIndex, day).getTime(), in days instead of           *)
(* milliseconds (a positive scale factor and the constant local-time       *)
(* offset do not change any comparison).  A year of 0..99 means 1900..1999,*)
(* month and day overflow carry, and a NaN argument gives an invalid date  *)
(* whose time is NaN.                                                      *)
(***************************************************************************)
DayFromYear(y) ==
    365 * (y - 1970) + ((y - 1969) \div 4) - ((y - 1901) \div 100) + ((y - 1601) \div 400)

InLeapYear(y) == (y % 4 = 0 /\ y % 100 # 0) \/ y % 400 = 0

MonthStart(m, leap) ==
    <<0, 31, 59, 90, 120, 151, 181, 212, 243, 273, 304, 334>>[m + 1]
        + (IF leap /\ m >= 2 THEN 1 ELSE 0)

MakeDay(year, month, date) ==
    LET ym == year + (month \div 12)
        mn == month % 12
    IN  DayFromYear(ym) + MonthStart(mn, InLeapYear(ym)) + date - 1

DateTime(y, m, d) ==
    IF y.t # "number" \/ m.t # "number" \/ d.t # "number" THEN NaN
    ELSE LET yr == IF 0 <= y.v /\ y.v <= 99 THEN 1900 + y.v ELSE y.v
         IN  Num(MakeDay(yr, m.v, d.v))

\* _getPublicationTime(work)
_getPublicationTime(work) ==
    DateTime(Coalesce(Get(work, "publicationYear"), Num(0)),
             JsSub(Coalesce(Get(work, "publicationMonth"), Num(1)), Num(1)),
             Coalesce(Get(work, "publicationDay"), Num(1)))

(***************************************************************************)
(* sortByDate: [...works].sort(comparator).                                *)
(***************************************************************************)
\* the comparator handed to sort
DateComparator(a, b, order) ==
    IF order = "desc" THEN JsSub(_getPublicationTime(b), _getPublicationTime(a))
    ELSE JsSub(_getPublicationTime(a), _getPublicationTime(b))

\* Array.prototype.sort reads the comparator's result as a sign; NaN counts as +0
CompareSign(a, b, order) ==
    LET v == DateComparator(a, b, order)
    IN  IF v.t # "number" THEN 0 ELSE IF v.v < 0 THEN -1 ELSE IF v.v > 0 THEN 1 ELSE 0

Range(s) == {s[i] : i \in 1..Len(s)}

\* ECMAScript's "consistent comparator" for the elements being sorted
ConsistentComparator(s, order) ==
    \A a, b, c \in Range(s) :
        /\ CompareSign(a, a, order) = 0
        /\ (CompareSign(a, b, order) = 0 /\ CompareSign(b, c, order) = 0)
              => CompareSign(a, c, order) = 0
        /\ (CompareSign(a, b, order) < 0 /\ CompareSign(b, c, order) < 0)
              => CompareSign(a, c, order) < 0
        /\ (CompareSign(a, b, order) > 0 /\ CompareSign(b, c, order) > 0)
              => CompareSign(a, c, order) > 0
        /\ (CompareSign(a, b, order) < 0) <=> (CompareSign(b, a, order) > 0)
        /\ (CompareSign(a, b, order) = 0) <=> (CompareSign(b, a, order) = 0)

\* insert x behind every element it does not sort strictly before
RECURSIVE InsertSorted(_, _, _)
InsertSorted(x, s, order) ==
    IF s = <<>> THEN <<x>>
    ELSE IF CompareSign(x, s[Len(s)], order) < 0
         THEN Append(InsertSorted(x, SubSeq(s, 1, Len(s) - 1), order), s[Len(s)])
         ELSE Append(s, x)

\* the stable sort of s: the one result a consistent comparator allows
RECURSIVE StableSort(_, _)
StableSort(s, order) ==
    IF s = <<>> THEN <<>>
    ELSE InsertSorted(s[Len(s)], StableSort(SubSeq(s, 1, Len(s) - 1), order), order)

ArrayOrders(s) ==
    LET n == Len(s)
        Bij == {p \in [1..n -> 1..n] : \A i, j \in 1..n : p[i] = p[j] => i = j}
    IN  {[i \in 1..n |-> s[p[i]]] : p \in Bij}

\* what [...works].sort(comparator) can return: the stable sort, or, when the
\* comparator is not consistent, an implementation-defined order of the elements
SortOutcomes(list, order) ==
    IF ConsistentComparator(list, order) THEN {StableSort(list, order)}
    ELSE ArrayOrders(list)

(***************************************************************************)
(* Number(x) and String(x) for the values of the model.                    *)
(***************************************************************************)
Digits == <<"0", "1", "2", "3", "4", "5", "6", "7", "8", "9">>
Whitespace == {" ", "\t", "\n"}

IsDigit(c) == \E i \in 1..10 : Digits[i] = c
DigitValue(c) == (CHOOSE i \in 1..10 : Digits[i] = c) - 1

\* str.trim()
RECURSIVE TrimStart(_)
TrimStart(s) ==
    IF Len(s) > 0 /\ SubSeq(s, 1, 1) \in Whitespace THEN TrimStart(SubSeq(s, 2, Len(s))) ELSE s

RECURSIVE TrimEnd(_)
TrimEnd(s) ==
    IF Len(s) > 0 /\ SubSeq(s, Len(s), Len(s)) \in Whitespace
    THEN TrimEnd(SubSeq(s, 1, Len(s) - 1)) ELSE s

Trim(s) == TrimEnd(TrimStart(s))

RECURSIVE DecimalValue(_)
DecimalValue(s) ==
    IF Len(s) = 0 THEN 0
    ELSE 10 * DecimalValue(SubSeq(s, 1, Len(s) - 1)) + DigitValue(SubSeq(s, Len(s), Len(s)))

\* Number(string) for strings of decimal digits, blank strings and non-numeric text
StringToNumber(s) ==
    LET body == Trim(s)
    IN  IF Len(body) = 0 THEN Num(0)
        ELSE IF \A i \in 1..Len(body) : IsDigit(SubSeq(body, i, i)) THEN Num(DecimalValue(body))
        ELSE NaN

\* Number(x)
ToNumber(x) ==
    CASE x.t = "undefined" -> NaN
      [] x.t = "null" -> Num(0)
      [] x.t = "number" -> x
      [] x.t = "NaN" -> NaN
      [] x.t = "string" -> StringToNumber(x.v)
      [] OTHER -> NaN

RECURSIVE NatToString(_)
NatToString(n) ==
    IF n < 10 THEN Digits[n + 1] ELSE NatToString(n \div 10) \o Digits[(n % 10) + 1]

\* String(x), which is also the property key x names
JsString(x) ==
    CASE x.t = "undefined" -> "undefined"
      [] x.t = "null" -> "null"
      [] x.t = "NaN" -> "NaN"
      [] x.t = "number" -> IF x.v < 0 THEN "-" \o NatToString(-x.v) ELSE NatToString(x.v)
      [] x.t = "string" -> x.v
      [] OTHER -> "[object Object]"

(***************************************************************************)
(* getStats.                                                               *)
(***************************************************************************)
\* counts[key] = (counts[key] || 0) + 1
Increment(counts, key) ==
    IF key \in DOMAIN counts THEN [counts EXCEPT ![key] = @ + 1]
    ELSE [k \in DOMAIN counts \cup {key} |-> IF k = key THEN 1 ELSE counts[k]]

\* Math.min / Math.max of two numbers
MathMin(x, y) == IF x.t # "number" \/ y.t # "number" THEN NaN ELSE IF x.v <= y.v THEN x ELSE y
MathMax(x, y) == IF x.t # "number" \/ y.t # "number" THEN NaN ELSE IF x.v >= y.v THEN x ELSE y

\* the initial stats object
EmptyStats(list) ==
    [total |-> Len(list),
     byType |-> [k \in {} |-> 0],
     byYear |-> [k \in {} |-> 0],
     yearRange |-> [min |-> Null, max |-> Null]]

\* one iteration of the loop over works
StatsStep(st, work) ==
    LET type == Coalesce(Get(work, "type"), Str("unknown"))
        year == Get(work, "publicationYear")
        typed == [st EXCEPT !.byType = Increment(@, JsString(type))]
    IN  IF TypeOf(year) = "number"
        THEN [typed EXCEPT
                !.byYear = Increment(@, JsString(year)),
                !.yearRange.min = IF @ # Null THEN MathMin(@, year) ELSE year,
                !.yearRange.max = IF @ # Null THEN MathMax(@, year) ELSE year]
        ELSE typed

RECURSIVE StatsLoop(_, _, _)
StatsLoop(st, list, i) ==
    IF i > Len(list) THEN st ELSE StatsLoop(StatsStep(st, list[i]), list, i + 1)

getStats(list) == StatsLoop(EmptyStats(list), list, 1)

(***************************************************************************)
(* The response parser of orcid-parser.ts.                                 *)
(***************************************************************************)
\* _parseEpochDate(value): a Date, as its time value in milliseconds
_parseEpochDate(value) ==
    LET ms == IF TypeOf(value) = "number" THEN value ELSE ToNumber(value)
    IN  IF ms.t = "number" THEN [t |-> "date", v |-> ms.v] ELSE [t |-> "date", v |-> 0]

ParseExternalId(id) ==
    Obj([k \in {"type", "value", "url", "relationship"} |->
            CASE k = "type" -> Get(id, "external-id-type")
              [] k = "value" -> Get(id, "external-id-value")
              [] k = "url" -> OptGet(Get(id, "external-id-url"), "value")
              [] k = "relationship" -> Get(id, "external-id-relationship")])

\* externalIds?.['external-id']?.map(...) || []
_parseExternalIds(externalIds) ==
    LET ids == OptGet(externalIds, "external-id")
    IN  IF ids.t = "array" THEN Arr([i \in 1..Len(ids.v) |-> ParseExternalId(ids.v[i])])
        ELSE Arr(<<>>)

ParseContributor(c) ==
    Obj([k \in {"name", "role", "sequence"} |->
            CASE k = "name" -> OptGet(Get(c, "credit-name"), "value")
              [] k = "role" -> OptGet(Get(c, "contributor-attributes"), "contributor-role")
              [] k = "sequence" ->
                    OptGet(Get(c, "contributor-attributes"), "contributor-sequence")])

\* contributors?.contributor?.map(...) || []
_parseContributors(contributors) ==
    LET list == OptGet(contributors, "contributor")
    IN  IF list.t = "array" THEN Arr([i \in 1..Len(list.v) |-> ParseContributor(list.v[i])])
        ELSE Arr(<<>>)

_parseCitation(citation) ==
    IF Truthy(citation)
    THEN Obj([k \in {"type", "value"} |->
                IF k = "type" THEN Get(citation, "citation-type")
                ELSE Get(citation, "citation-value")])
    ELSE Undefined

SummaryFields ==
    {"putCode", "createdDate", "lastModifiedDate", "source", "title", "subtitle",
     "translatedTitle", "externalIds", "publicationYear", "publicationMonth",
     "publicationDay", "journalTitle", "url"}

WorkOnlyFields ==
    {"shortDescription", "citation", "type", "contributors", "languageCode", "country"}

SummaryField(data, k) ==
    LET pubDate == Get(data, "publication-date")
    IN  CASE k = "putCode" -> ToNumber(Get(data, "put-code"))
          [] k = "createdDate" -> _parseEpochDate(OptGet(Get(data, "created-date"), "value"))
          [] k = "lastModifiedDate" ->
                _parseEpochDate(OptGet(Get(data, "last-modified-date"), "value"))
          [] k = "source" -> OptGet(OptGet(Get(data, "source"), "source-name"), "value")
          [] k = "title" -> OptGet(OptGet(Get(data, "title"), "title"), "value")
          [] k = "subtitle" -> OptGet(OptGet(Get(data, "title"), "subtitle"), "value")
          [] k = "translatedTitle" ->
                OptGet(OptGet(Get(data, "title"), "translated-title"), "value")
          [] k = "externalIds" -> _parseExternalIds(Get(data, "external-ids"))
          [] k = "publicationYear" -> ToNumber(OptGet(OptGet(pubDate, "year"), "value"))
          [] k = "publicationMonth" -> ToNumber(OptGet(OptGet(pubDate, "month"), "value"))
          [] k = "publicationDay" -> ToNumber(OptGet(OptGet(pubDate, "day"), "value"))
          [] k = "journalTitle" -> OptGet(Get(data, "journal-title"), "value")
          [] k = "url" -> OptGet(Get(data, "url"), "value")

_parseWorkSummary(data) == Obj([k \in SummaryFields |-> SummaryField(data, k)])

WorkOnlyField(data, k) ==
    CASE k = "shortDescription" -> Get(data, "short-description")
      [] k = "citation" -> _parseCitation(Get(data, "citation"))
      [] k = "type" -> Get(data, "type")
      [] k = "contributors" -> _parseContributors(Get(data, "contributors"))
      [] k = "languageCode" -> Get(data, "language-code")
      [] k = "country" -> OptGet(Get(data, "country"), "value")

_parseWork(data) ==
    Obj([k \in SummaryFields \cup WorkOnlyFields |->
            IF k \in SummaryFields THEN _parseWorkSummary(data).v[k]
            ELSE WorkOnlyField(data, k)])

(***************************************************************************)
(* The type vocabulary of constants.ts.                                    *)
(***************************************************************************)
\* an object literal with string values, from its entries in source order
ObjectLiteral(entries) ==
    [k \in {entries[i][1] : i \in DOMAIN entries} |->
        entries[CHOOSE i \in DOMAIN entries : entries[i][1] = k][2]]

WORK_TYPE_ENTRIES ==
    <<<<"ARTICLE", "journal-article">>, <<"BOOK", "book">>,
      <<"BOOK_CHAPTER", "book-chapter">>, <<"CONFERENCE_PAPER", "conference-paper">>,
      <<"CONFERENCE_PROCEEDINGS", "conference-proceedings">>,
      <<"CONFERENCE_POSTER", "conference-poster">>,
      <<"CONFERENCE_PRESENTATION", "conference-presentation">>,
      <<"CONFERENCE_OUTPUT", "conference-output">>,
      <<"DISSERTATION", "dissertation-thesis">>, <<"PREPRINT", "preprint">>,
      <<"WORKING_PAPER", "working-paper">>, <<"ANNOTATION", "annotation">>,
      <<"BOOK_REVIEW", "book-review">>, <<"JOURNAL_ISSUE", "journal-issue">>,
      <<"REVIEW", "review">>, <<"BLOG_POST", "blog-post">>,
      <<"DICTIONARY_ENTRY", "dictionary-entry">>,
      <<"ENCYCLOPEDIA_ENTRY", "encyclopedia-entry">>,
      <<"MAGAZINE_ARTICLE", "magazine-article">>,
      <<"NEWSPAPER_ARTICLE", "newspaper-article">>, <<"PUBLIC_SPEECH", "public-speech">>,
      <<"REPORT", "report">>, <<"WEBSITE", "website">>,
      <<"ARTISTIC_PERFORMANCE", "artistic-performance">>, <<"DESIGN", "design">>,
      <<"IMAGE", "image">>, <<"ONLINE_RESOURCE", "online-resource">>,
      <<"MOVING_IMAGE", "moving-image">>,
      <<"MUSICAL_COMPOSITION", "musical-composition">>, <<"SOUND", "sound">>,
      <<"CARTOGRAPHIC_MATERIAL", "cartographic-material">>,
      <<"CLINICAL_STUDY", "clinical-study">>, <<"DATASET", "data-set">>,
      <<"DATA_MANAGEMENT_PLAN", "data-management-plan">>,
      <<"PHYSICAL_OBJECT", "physical-object">>,
      <<"RESEARCH_TECHNIQUE", "research-technique">>,
      <<"RESEARCH_TOOL", "research-tool">>, <<"SOFTWARE", "software">>,
      <<"INVENTION", "invention">>, <<"LICENSE", "license">>, <<"PATENT", "patent">>,
      <<"REGISTERED_COPYRIGHT", "registered-copyright">>,
      <<"STANDARDS_AND_POLICY", "standards-and-policy">>, <<"TRADEMARK", "trademark">>,
      <<"LECTURE_SPEECH", "lecture-speech">>, <<"LEARNING_OBJECT", "learning-object">>,
      <<"SUPERVISED_STUDENT_PUBLICATION", "supervised-student-publication">>,
      <<"OTHER", "other">>, <<"UNSUPPORTED", "unsupported">>,
      <<"CONFERENCE_ABSTRACT", "conference-abstract">>, <<"DISCLOSURE", "disclosure">>,
      <<"EDITED_BOOK", "edited-book">>, <<"MANUAL", "manual">>,
      <<"NEWSLETTER_ARTICLE", "newsletter-article">>,
      <<"SPIN_OFF_COMPANY", "spin-off-company">>,
      <<"TECHNICAL_STANDARDS", "technical-standards">>, <<"TEST", "test">>>>

WORK_TYPES == ObjectLiteral(WORK_TYPE_ENTRIES)

WorkTypeValues == {WORK_TYPES[k] : k \in DOMAIN WORK_TYPES}

(***************************************************************************)
(* The response parser of the legacy module index.ts, class ORCID.         *)
(***************************************************************************)
LEGACY_WORK_TYPE_ENTRIES ==
    <<<<"ARTICLE", "journal-article">>, <<"BOOK", "book">>,
      <<"BOOK_CHAPTER", "book-chapter">>, <<"CONFERENCE_PAPER", "conference-paper">>,
      <<"CONFERENCE_ABSTRACT", "conference-abstract">>,
      <<"DISSERTATION", "dissertation-thesis">>, <<"PREPRINT", "preprint">>,
      <<"REPORT", "report">>, <<"DATASET", "data-set">>,
      <<"SOFTWARE", "research-software">>, <<"PATENT", "patent">>,
      <<"REVIEW", "review">>, <<"WORKING_PAPER", "working-paper">>, <<"OTHER", "other">>,
      <<"UNSUPPORTED", "unsupported">>>>

LEGACY_WORK_TYPES == ObjectLiteral(LEGACY_WORK_TYPE_ENTRIES)

\* x || d
OrElse(x, d) == IF Truthy(x) THEN x ELSE d

\* ORCID._extractTitle(titleObj)
_extractTitle(titleObj) == OrElse(OptGet(OptGet(titleObj, "title"), "value"), Str("Untitled"))

\* the type field of ORCID._parseWork
LegacyWorkType(data) ==
    IF \E k \in DOMAIN LEGACY_WORK_TYPES : Str(LEGACY_WORK_TYPES[k]) = Get(data, "type")
    THEN Get(data, "type")
    ELSE Str(LEGACY_WORK_TYPES["UNSUPPORTED"])

\* ORCID._parseWork(data)
ORCID_parseWork(data) ==
    Obj([k \in SummaryFields \cup WorkOnlyFields |->
            CASE k = "title" -> _extractTitle(Get(data, "title"))
              [] k = "type" -> LegacyWorkType(data)
              [] k \in SummaryFields \ {"title"} -> SummaryField(data, k)
              [] OTHER -> WorkOnlyField(data, k)])

(***************************************************************************)
(* The identifier normalizer.                                              *)
(***************************************************************************)
StartsWith(s, p) == Len(s) >= Len(p) /\ SubSeq(s, 1, Len(p)) = p

\* the length of the match of /^https?:\/\/orcid\.org\// in id, or -1
RegistryPrefixMatch(id) ==
    LET scheme == IF StartsWith(id, "https") THEN "https" ELSE "http"
        rest == "://orcid.org/"
    IN  IF StartsWith(id, scheme \o rest) THEN Len(scheme) + Len(rest) ELSE -1

\* _sanitizeOrcidId(id): id.replace(/^https?:\/\/orcid\.org\//, '')
_sanitizeOrcidId(id) ==
    IF RegistryPrefixMatch(id) >= 0
    THEN SubSeq(id, RegistryPrefixMatch(id) + 1, Len(id))
    ELSE id

(***************************************************************************)
(* The Orcid client of orcid-parser.ts.  A call of an async method is a    *)
(* record: the method, where it is suspended, the requests it has issued,  *)
(* and how it settled.  What runs between two awaits is one step.          *)
(***************************************************************************)
MaxPutCodes == 100
DefaultTimeout == 10000
DefaultBaseURL == "https://pub.orcid.org/v3.0"

NoCall ==
    [op |-> "none", arg |-> Undefined, pc |-> "none", phase |-> "none", codes |-> <<>>,
     requests |-> <<>>, timers |-> <<>>, response |-> "none", status |-> 0,
     result |-> Undefined, error |-> ""]

\* array.join(',') for an array of numbers, the elements from lo to hi
RECURSIVE JoinRange(_, _, _)
JoinRange(arr, lo, hi) ==
    IF lo > hi THEN ""
    ELSE IF lo = hi THEN JsString(arr[lo])
    ELSE LET mid == (lo + hi) \div 2
         IN  JoinRange(arr, lo, mid) \o "," \o JoinRange(arr, mid + 1, hi)

Join(arr) == JoinRange(arr, 1, Len(arr))

\* `${this.baseURL}/${this.orcidId}/works`
ListingUrl(base, id) == base \o "/" \o id \o "/works"

\* `${this.baseURL}/${this.orcidId}/works/${putCodes.join(',')}`
BulkUrl(base, id, putCodes) == base \o "/" \o id \o "/works/" \o Join(putCodes)

\* _fetchJson(url, timeout) up to its first await: fetch(url) is issued and races
\* the timer of _fetchWithTimeout
IssueRequest(call, url) ==
    [call EXCEPT !.requests = Append(@, url), !.timers = Append(@, "armed"),
                 !.response = "pending", !.status = 0, !.phase = "fetch"]

\* a variant of a failure that is swallowed: the call returns an empty list
RejectAsEmpty(call, message) ==
    [call EXCEPT !.pc = "resolved", !.phase = "none", !.result = Arr(<<>>)]

Reject(call, message) ==
    [call EXCEPT !.pc = "rejected", !.phase = "none", !.error = message]

Resolve(call, value) ==
    [call EXCEPT !.pc = "resolved", !.phase = "none", !.result = value]

\* a variant of the guard that already refuses MaxPutCodes put codes
TooManyCodesFromLimit(putCodes) == Len(putCodes) >= MaxPutCodes

\* the guard of fetchWithCodes: putCodes.length > 100
TooManyCodes(putCodes) == Len(putCodes) > MaxPutCodes

\* fetchWithCodes(putCodes) up to its first await
BeginFetchWithCodes(call, putCodes, base, id) ==
    IF TooManyCodes(putCodes)
    THEN Reject(call, "fetchWithCodes: Too many put codes (max 100)")
    ELSE [IssueRequest(call, BulkUrl(base, id, putCodes)) EXCEPT
            !.pc = "bulk", !.codes = putCodes]

\* fetchWorks(putCodes) up to its first await
BeginFetchWorks(call, putCodes, base, id) ==
    IF putCodes.t \in {"undefined", "null"} \/ putCodes = Str("")
    THEN [IssueRequest(call, ListingUrl(base, id)) EXCEPT !.pc = "listing"]
    ELSE IF putCodes.t = "array"
         THEN BeginFetchWithCodes(call,
                  [i \in 1..Len(putCodes.v) |-> ToNumber(putCodes.v[i])], base, id)
         ELSE BeginFetchWithCodes(call, <<ToNumber(putCodes)>>, base, id)

\* the methods of the client that await this.getWorks() and hand the works to a
\* query utility
ConvenienceMethods == {"groupBy", "filterByType", "filterByYearRange", "sortByDate", "getStats"}

\* getWorks returns: a getWorks() call of the user is resolved, a convenience
\* method has the works it awaited and goes on with them in a later step
ReturnWorks(call, list) ==
    IF call.op \in ConvenienceMethods
    THEN [call EXCEPT !.pc = "got", !.phase = "none", !.result = list]
    ELSE Resolve(call, list)

\* the cache test of getWorks: this.works.length < 1
CacheEmpty(cache) == Len(cache) < 1

\* a variant of getWorks that joins a fetch another getWorks() call has in flight
\* instead of starting its own
BeginGetWorksShared(call, cache, base, id) ==
    IF ~CacheEmpty(cache) THEN ReturnWorks(call, Arr(cache))
    ELSE IF \E d \in DOMAIN calls : calls[d].op = "getWorks" /\ calls[d].pc \in {"listing", "bulk"}
         THEN [call EXCEPT !.pc = "joined"]
         ELSE BeginFetchWorks(call, Undefined, base, id)

\* getWorks() up to its first await
BeginGetWorks(call, cache, base, id) ==
    IF CacheEmpty(cache) THEN BeginFetchWorks(call, Undefined, base, id)
    ELSE ReturnWorks(call, Arr(cache))

\* array.flatMap(f) for f returning arrays
RECURSIVE Flatten(_)
Flatten(arrs) == IF arrs = <<>> THEN <<>> ELSE Head(arrs) \o Flatten(Tail(arrs))

\* the put codes fetchWorks reads from the listing: every summary of every group,
\* at most the first MaxPutCodes of them
ListedCodes(data) ==
    LET groups == OrElse(Get(data, "group"), Arr(<<>>)).v
        summaries == Flatten([i \in 1..Len(groups) |->
                                OrElse(Get(groups[i], "work-summary"), Arr(<<>>)).v])
        all == [i \in 1..Len(summaries) |-> ToNumber(Get(summaries[i], "put-code"))]
    IN  SubSeq(all, 1, IF Len(all) < MaxPutCodes THEN Len(all) ELSE MaxPutCodes)

\* what fetchWithCodes returns for the body of the bulk response
BulkWorks(data) ==
    LET bulk == OrElse(Get(data, "bulk"), Arr(<<>>)).v
    IN  Arr([i \in 1..Len(bulk) |-> _parseWork(Get(bulk[i], "work"))])

\* a variant in which every fetch that returns works stores them
CacheAfterAnyFetch(call, fetched, cache) == fetched

\* this.works after the works of the bulk request came back: getWorks, called by
\* the user or by a convenience method, assigns them; fetchWorks and
\* fetchWithCodes only return them
CacheAfter(call, fetched, cache) ==
    IF call.op \in {"getWorks"} \cup ConvenienceMethods THEN fetched ELSE cache

\* a variant of the constructor's test that only refuses a missing identifier
IdRejectedWhenMissing(id) == id.t \in {"undefined", "null"}

\* the constructor's test of its identifier: !orcidId
IdRejected(id) == ~Truthy(id)

(***************************************************************************)
(* Inputs of the query utilities: works written by hand, as in the tests   *)
(* (properties present with a value, or left out), and works the response  *)
(* parser produced from raw registry objects.                              *)
(***************************************************************************)
MaxWorks == 3
MaxCalls == 2

\* an object with the given properties, the undefined ones left out
ObjectOf(f) == Obj([k \in {x \in DOMAIN f : f[x] # Undefined} |-> f[k]])

LiteralWork(type, year, month, day) ==
    ObjectOf([k \in {"type", "publicationYear", "publicationMonth", "publicationDay"} |->
                CASE k = "type" -> type
                  [] k = "publicationYear" -> year
                  [] k = "publicationMonth" -> month
                  [] k = "publicationDay" -> day])

\* { value: v }, or nothing when v is left out
ValueObj(v) == IF v = Undefined THEN Undefined ELSE ObjectOf([k \in {"value"} |-> v])

\* a raw work object of the registry
RawWork(type, year, month, day) ==
    ObjectOf([k \in {"type", "publication-date"} |->
                CASE k = "type" -> type
                  [] k = "publication-date" ->
                        IF year = Undefined /\ month = Undefined /\ day = Undefined
                        THEN Undefined
                        ELSE ObjectOf([j \in {"year", "month", "day"} |->
                                CASE j = "year" -> ValueObj(year)
                                  [] j = "month" -> ValueObj(month)
                                  [] j = "day" -> ValueObj(day)])])

SortWorks ==
    {LiteralWork(Str("book"), y, Undefined, Undefined) :
        y \in {Undefined, Num(1850), Num(2020), Num(2021)}}
    \cup {LiteralWork(Str("book"), Num(2020), Num(6), Undefined)}
    \cup {_parseWork(RawWork(Str("book"), Num(2020), Undefined, Undefined)),
          _parseWork(RawWork(Str("book"), Num(2021), Num(6), Num(1))),
          _parseWork(RawWork(Str("book"), Undefined, Undefined, Undefined))}

StatsWorks ==
    {LiteralWork(ty, y, Undefined, Undefined) :
        ty \in {Undefined, Null, Str("book"), Str("journal-article")},
        y \in {Undefined, Num(2020), Num(2021)}}
    \cup {_parseWork(RawWork(ty, y, Undefined, Undefined)) :
            ty \in {Undefined, Str("book")}, y \in {Undefined, Str("2020")}}

\* the collections of at most MaxWorks works; the put code tells the works apart
Collections(W) ==
    UNION {{[i \in 1..n |-> Obj([k \in DOMAIN base[i].v \cup {"putCode"} |->
                                    IF k = "putCode" THEN Num(i) ELSE base[i].v[k]])] :
                base \in [1..n -> W]} : n \in 0..MaxWorks}

Orders == {"asc", "desc"}

(***************************************************************************)
(* The parts of the state a specification does not exercise stay as they   *)
(* are after loading the module.                                           *)
(***************************************************************************)
QueryIdle ==
    /\ sortOrder = "none"
    /\ sorted = <<>>
    /\ stats = EmptyStats(<<>>)
    /\ statsDone = FALSE

IdIdle == idInput = "" /\ idOutput = "" /\ idAgain = "" /\ idStep = 0

ParserIdle == rawInput = EmptyObj /\ parsed = EmptyObj /\ parsedBy = "none"

UtilIdle == utilCall = [op |-> "none"] /\ utilResult = Undefined

ClientIdle ==
    /\ ctorState = "not called"
    /\ ctorArg = Undefined
    /\ ctorError = ""
    /\ orcidId = ""
    /\ baseURL = ""
    /\ timeout = 0
    /\ works = <<>>
    /\ calls = [c \in 1..MaxCalls |-> NoCall]

(***************************************************************************)
(* The query utilities as operations on a collection.                      *)
(***************************************************************************)
\* sortByDate(ws, order): the result is a new array, ws is not touched
SortByDate(order) ==
    /\ sortOrder = "none"
    /\ sorted' \in SortOutcomes(ws, order)
    /\ sortOrder' = order
    /\ UNCHANGED <<ws, stats, statsDone, idVars, parserVars, clientVars, utilVars>>

\* getStats(ws)
GetStats ==
    /\ stats' = getStats(ws)
    /\ statsDone' = TRUE
    /\ UNCHANGED <<ws, sortOrder, sorted, idVars, parserVars, clientVars, utilVars>>

SortInit == ws \in Collections(SortWorks) /\ QueryIdle /\ IdIdle /\ ParserIdle /\ ClientIdle /\ UtilIdle
SortNext == \E order \in Orders : SortByDate(order)
SortSpec == SortInit /\ [][SortNext]_vars

StatsInit == ws \in Collections(StatsWorks) /\ QueryIdle /\ IdIdle /\ ParserIdle /\ ClientIdle /\ UtilIdle
StatsNext == GetStats
StatsSpec == StatsInit /\ [][StatsNext]_vars

(***************************************************************************)
(* Properties of sortByDate.                                               *)
(***************************************************************************)
\* a field that holds no number: left out, null, or the parser's NaN
Missing(x) == x.t \in {"undefined", "null", "NaN"}

\* the composite calendar date the specification sorts by:
\* (publicationYear, publicationMonth or 1, publicationDay or 1)
CalendarDate(w) ==
    LET y == Get(w, "publicationYear")
        m == Get(w, "publicationMonth")
        d == Get(w, "publicationDay")
    IN  <<IF Missing(y) THEN 0 ELSE y.v, IF Missing(m) THEN 1 ELSE m.v,
          IF Missing(d) THEN 1 ELSE d.v>>

DateBefore(p, q) ==
    \/ p[1] < q[1]
    \/ p[1] = q[1] /\ p[2] < q[2]
    \/ p[1] = q[1] /\ p[2] = q[2] /\ p[3] < q[3]

HasYear(w) == ~Missing(Get(w, "publicationYear"))
Undated(w) ==
    /\ Missing(Get(w, "publicationYear"))
    /\ Missing(Get(w, "publicationMonth"))
    /\ Missing(Get(w, "publicationDay"))

Reverse(s) == [i \in 1..Len(s) |-> s[Len(s) + 1 - i]]
Opposite(order) == IF order = "asc" THEN "desc" ELSE "asc"
PositionIn(s, w) == CHOOSE k \in 1..Len(s) : s[k] = w

\* C6: sortByDate(works, "desc") returns the works in non-increasing order of the
\* composite calendar date (month and day defaulting to 1 when missing), and
\* sortByDate(works, "asc") in non-decreasing order; stated for the works that
\* have a publication year.
C6_SortedByCalendarDate ==
    sortOrder # "none" =>
        \A i, j \in 1..Len(sorted) :
            (i < j /\ HasYear(sorted[i]) /\ HasYear(sorted[j])) =>
                IF sortOrder = "desc"
                THEN ~DateBefore(CalendarDate(sorted[i]), CalendarDate(sorted[j]))
                ELSE ~DateBefore(CalendarDate(sorted[j]), CalendarDate(sorted[i]))

\* C7: the output of sortByDate in one order, reversed, is the output of
\* sortByDate in the opposite order on the same input.
C7_ReverseIsOppositeOrder ==
    sortOrder # "none" => Reverse(sorted) \in SortOutcomes(ws, Opposite(sortOrder))

C9_UndatedAtOneEnd ==
    sortOrder # "none" =>
        \A i, j \in 1..Len(sorted) :
            (Undated(sorted[i]) /\ HasYear(sorted[j])) =>
                IF sortOrder = "desc" THEN j < i ELSE i < j

(***************************************************************************)
(* Properties of getStats.                                                 *)
(***************************************************************************)
RECURSIVE SumOfCounts(_)
SumOfCounts(counts) ==
    IF DOMAIN counts = {} THEN 0
    ELSE LET k == CHOOSE x \in DOMAIN counts : TRUE
         IN  counts[k] + SumOfCounts([x \in DOMAIN counts \ {k} |-> counts[x]])

\* C10: total is the number of works, the counts of byType sum to total, and
\* the counts of byYear sum to at most total, with equality exactly when every
\* work has a publication year.
C10_StatsTotals ==
    statsDone =>
        /\ stats.total = Len(ws)
        /\ SumOfCounts(stats.byType) = stats.total
        /\ SumOfCounts(stats.byYear) <= stats.total
        /\ (SumOfCounts(stats.byYear) = stats.total)
              <=> (\A i \in 1..Len(ws) : HasYear(ws[i]))

\* the years of the works that have a publication year
YearsOf(list) ==
    {Get(list[i], "publicationYear").v : i \in {j \in 1..Len(list) : HasYear(list[j])}}

\* C11: byYear has exactly one key per year of the works that have a publication
\* year, counting those works; yearRange.min and yearRange.max are the smallest
\* and the largest of these years, and both are null when no work has a year.
C11_YearsFromDatedWorksOnly ==
    statsDone =>
        LET years == YearsOf(ws)
        IN  /\ DOMAIN stats.byYear = {JsString(Num(y)) : y \in years}
            /\ \A y \in years :
                  stats.byYear[JsString(Num(y))] =
                      Cardinality({i \in 1..Len(ws) :
                                      Get(ws[i], "publicationYear") = Num(y)})
            /\ IF years = {}
               THEN stats.yearRange = [min |-> Null, max |-> Null]
               ELSE /\ stats.yearRange.min = Num(CHOOSE y \in years : \A z \in years : y <= z)
                    /\ stats.yearRange.max = Num(CHOOSE y \in years : \A z \in years : y >= z)

(***************************************************************************)
(* The identifier normalizer applied to an identifier, and to its own      *)
(* output.                                                                 *)
(***************************************************************************)
MaxIdParts == 3

IdParts ==
    {"https://orcid.org/", "http://orcid.org/", "0000-0002-1825-0097", "http", "s",
     "://orcid.org/"}

RECURSIVE Concat(_)
Concat(parts) == IF parts = <<>> THEN "" ELSE Head(parts) \o Concat(Tail(parts))

\* the non-empty identifiers made of at most MaxIdParts parts
Identifiers == UNION {{Concat(p) : p \in [1..n -> IdParts]} : n \in 1..MaxIdParts}

Sanitize ==
    /\ idStep = 0
    /\ idOutput' = _sanitizeOrcidId(idInput)
    /\ idStep' = 1
    /\ UNCHANGED <<idInput, idAgain, queryVars, parserVars, clientVars, utilVars>>

SanitizeAgain ==
    /\ idStep = 1
    /\ idAgain' = _sanitizeOrcidId(idOutput)
    /\ idStep' = 2
    /\ UNCHANGED <<idInput, idOutput, queryVars, parserVars, clientVars, utilVars>>

NormalizerInit ==
    /\ idInput \in Identifiers
    /\ idOutput = "" /\ idAgain = "" /\ idStep = 0
    /\ ws = <<>> /\ QueryIdle /\ ParserIdle /\ ClientIdle /\ UtilIdle
NormalizerNext == Sanitize \/ SanitizeAgain
NormalizerSpec == NormalizerInit /\ [][NormalizerNext]_vars

HasRegistryPrefix(id) ==
    StartsWith(id, "http://orcid.org/") \/ StartsWith(id, "https://orcid.org/")

\* C4: for every non-empty identifier the normalizer's output does not start
\* with the registry URL prefix, and normalizing the output again returns it
\* unchanged.
C4_PrefixFreeAndIdempotent ==
    /\ idStep >= 1 => ~HasRegistryPrefix(idOutput)
    /\ idStep = 2 => idAgain = idOutput

(***************************************************************************)
(* The response parser applied to a raw work object.                       *)
(***************************************************************************)
RawTypes ==
    {Undefined, Null, Str("journal-article"), Str("book"), Str("research-software"),
     Str("unsupported"), Str("not-a-type")}

RawYears == {Undefined, Null, Num(2021), Str("2021"), Str(""), Str("n/a")}

RawInputs == {RawWork(ty, y, Undefined, Undefined) : ty \in RawTypes, y \in RawYears}

\* _parseWork of orcid-parser.ts
ParseWork ==
    /\ parsedBy = "none"
    /\ parsed' = _parseWork(rawInput)
    /\ parsedBy' = "orcid-parser"
    /\ UNCHANGED <<rawInput, queryVars, idVars, clientVars, utilVars>>

\* ORCID._parseWork of index.ts
ParseWorkLegacy ==
    /\ parsedBy = "none"
    /\ parsed' = ORCID_parseWork(rawInput)
    /\ parsedBy' = "index"
    /\ UNCHANGED <<rawInput, queryVars, idVars, clientVars, utilVars>>

\* raw objects with a year and different months and days
RawDates ==
    {RawWork(Str("book"), Num(2021), m, d) :
        m \in {Undefined, Null, Str("06")}, d \in {Undefined, Str(""), Str("15"), Num(15)}}

\* raw objects in which any subset of the optional fields is present
OptionalRawFields ==
    {"title", "external-ids", "contributors", "citation", "created-date",
     "last-modified-date"}

SampleRawField(k) ==
    CASE k = "title" ->
            Obj([a \in {"title"} |-> Obj([b \in {"value"} |-> Str("A title")])])
      [] k = "external-ids" ->
            Obj([a \in {"external-id"} |->
                    Arr(<<Obj([b \in {"external-id-type", "external-id-value"} |->
                                IF b = "external-id-type" THEN Str("doi") ELSE Str("10.1/x")])>>)])
      [] k = "contributors" ->
            Obj([a \in {"contributor"} |->
                    Arr(<<Obj([b \in {"credit-name"} |->
                                Obj([c \in {"value"} |-> Str("Ann")])])>>)])
      [] k = "citation" ->
            Obj([a \in {"citation-type", "citation-value"} |->
                    IF a = "citation-type" THEN Str("bibtex") ELSE Str("@article{x}")])
      [] k = "created-date" -> Obj([a \in {"value"} |-> Num(1000)])
      [] k = "last-modified-date" -> Obj([a \in {"value"} |-> Num(2000)])

RawRecords == {Obj([k \in present |-> SampleRawField(k)]) : present \in SUBSET OptionalRawFields}

\* _parseWorkSummary of orcid-parser.ts
ParseWorkSummary ==
    /\ parsedBy = "none"
    /\ parsed' = _parseWorkSummary(rawInput)
    /\ parsedBy' = "orcid-parser summary"
    /\ UNCHANGED <<rawInput, queryVars, idVars, clientVars, utilVars>>

ParserInit ==
    /\ rawInput \in RawInputs \cup RawDates \cup RawRecords
    /\ parsed = EmptyObj /\ parsedBy = "none"
    /\ ws = <<>> /\ QueryIdle /\ IdIdle /\ ClientIdle /\ UtilIdle
ParserNext == ParseWork \/ ParseWorkLegacy \/ ParseWorkSummary
ParserSpec == ParserInit /\ [][ParserNext]_vars

\* C2: the type of the Work that parseWork returns is a value of the type
\* vocabulary; a raw type outside the vocabulary, or a missing one, becomes
\* "unsupported".
C2_TypeInVocabulary ==
    parsedBy \in {"orcid-parser", "index"} =>
        /\ Get(parsed, "type").t = "string"
        /\ Get(parsed, "type").v \in WorkTypeValues
        /\ (Get(rawInput, "type").t = "string" /\ Get(rawInput, "type").v \in WorkTypeValues)
              => Get(parsed, "type") = Get(rawInput, "type")
        /\ ~(Get(rawInput, "type").t = "string" /\ Get(rawInput, "type").v \in WorkTypeValues)
              => Get(parsed, "type") = Str(WORK_TYPES["UNSUPPORTED"])

(***************************************************************************)
(* The client: construction, method calls, and the registry's answers.     *)
(***************************************************************************)
CtorArgs ==
    {Undefined, Null, Str(""), Str("https://orcid.org/0000-0002-1825-0097")}

Configs == {EmptyObj, Obj([k \in {"timeout"} |-> Num(0)])}

\* the arguments fetchWithCodes is called with: put codes 1..n
CodeLists == {[i \in 1..n |-> Num(i)] : n \in {1, MaxPutCodes, MaxPutCodes + 1}}

\* a raw summary and a raw work of the registry, by put code
RegistrySummary(code) == Obj([k \in {"put-code"} |-> Num(code)])
RegistryWork(code) ==
    Obj([k \in {"put-code", "type", "publication-date"} |->
            CASE k = "put-code" -> code
              [] k = "type" -> IF code = Num(2) THEN Str("journal-article") ELSE Str("book")
              [] k = "publication-date" ->
                    IF code = Num(3) THEN Null
                    ELSE Obj([j \in {"year", "month", "day"} |->
                                Obj([v \in {"value"} |->
                                        CASE j = "year" ->
                                                IF code = Num(2) THEN Str("2019") ELSE Str("2021")
                                          [] j = "month" -> Str("6")
                                          [] j = "day" -> Str("1")])])])

Group(codes) ==
    Obj([k \in {"work-summary"} |-> Arr([i \in 1..Len(codes) |-> RegistrySummary(codes[i])])])

\* the bodies the registry answers the listing request with
FullListing == Obj([k \in {"group"} |-> Arr(<<Group(<<1, 3>>), EmptyObj, Group(<<2>>)>>)])

ListingBodies == {EmptyObj, FullListing}

\* the body the registry answers a bulk request with: one work per put code
BulkBody(codes) ==
    IF Len(codes) = 0 THEN EmptyObj
    ELSE Obj([k \in {"bulk"} |->
                Arr([i \in 1..Len(codes) |->
                        Obj([j \in {"work"} |-> RegistryWork(codes[i])])])])

\* the HTTP status lines the registry answers with
Statuses == {200, 500}

\* a call issues at most two requests: the listing and the bulk request
RequestsPerCall == 2

\* new Orcid(id, config)
Construct(id, config) ==
    /\ ctorState # "constructed"
    /\ ctorArg' = id
    /\ IF IdRejected(id)
       THEN /\ ctorState' = "threw"
            /\ ctorError' = "ORCID ID is required"
            /\ UNCHANGED <<orcidId, baseURL, timeout, works>>
       ELSE /\ ctorState' = "constructed"
            /\ ctorError' = ""
            /\ orcidId' = _sanitizeOrcidId(id.v)
            /\ baseURL' = OrElse(Get(config, "baseURL"), Str(DefaultBaseURL)).v
            /\ timeout' = OrElse(Get(config, "timeout"), Num(DefaultTimeout)).v
            /\ works' = <<>>
    /\ UNCHANGED <<calls, queryVars, idVars, parserVars, utilVars>>

\* the next call on the instance
Fresh(c) ==
    /\ ctorState = "constructed"
    /\ calls[c].op = "none"
    /\ \A d \in 1..MaxCalls : d < c => calls[d].op # "none"

\* client.getWorks()
CallGetWorks(c) ==
    /\ Fresh(c)
    /\ calls' = [calls EXCEPT ![c] =
                    BeginGetWorks([NoCall EXCEPT !.op = "getWorks"], works, baseURL, orcidId)]
    /\ UNCHANGED <<ctorState, ctorArg, ctorError, orcidId, baseURL, timeout, works,
                   queryVars, idVars, parserVars, utilVars>>

\* client.fetchWorks(putCodes)
CallFetchWorks(c, putCodes) ==
    /\ Fresh(c)
    /\ calls' = [calls EXCEPT ![c] =
                    BeginFetchWorks([NoCall EXCEPT !.op = "fetchWorks", !.arg = putCodes],
                                    putCodes, baseURL, orcidId)]
    /\ UNCHANGED <<ctorState, ctorArg, ctorError, orcidId, baseURL, timeout, works,
                   queryVars, idVars, parserVars, utilVars>>

\* client.fetchWithCodes(putCodes)
CallFetchWithCodes(c, putCodes) ==
    /\ Fresh(c)
    /\ calls' = [calls EXCEPT ![c] =
                    BeginFetchWithCodes([NoCall EXCEPT !.op = "fetchWithCodes", !.arg = Arr(putCodes)],
                                        putCodes,
                                        baseURL, orcidId)]
    /\ UNCHANGED <<ctorState, ctorArg, ctorError, orcidId, baseURL, timeout, works,
                   queryVars, idVars, parserVars, utilVars>>

\* a variant of the race in which the timer of the current request always wins
RaceUndecidedUntilTimer(call, k) == k = Len(call.requests)

\* Promise.race([fetch, timer]) of request k of the call is still unsettled: k is
\* the request the call is waiting for and neither the response nor the timer
\* has come
RaceUndecided(call, k) == k = Len(call.requests) /\ call.phase = "fetch"

\* a variant of the test that takes every response as OK
ResponseOkAlways(status) == TRUE

\* response.ok: the status is in the range 200-299
ResponseOk(status) == status >= 200 /\ status <= 299

\* the response of the current request arrives.  If the race is unsettled,
\* _fetchJson goes on: it throws for a non-OK response and otherwise awaits
\* response.json().  If the timer has won, nothing waits for the response.
Respond(c, status) ==
    /\ calls[c].response = "pending"
    /\ calls' = [calls EXCEPT ![c] =
                    IF RaceUndecided(@, Len(@.requests))
                    THEN IF ResponseOk(status)
                         THEN [@ EXCEPT !.response = "arrived", !.status = status,
                                        !.phase = "json"]
                         ELSE Reject([@ EXCEPT !.response = "arrived", !.status = status],
                                     "HTTP error! status: " \o JsString(Num(status)))
                    ELSE [@ EXCEPT !.response = "arrived"]]
    /\ UNCHANGED <<ctorState, ctorArg, ctorError, orcidId, baseURL, timeout, works,
                   queryVars, idVars, parserVars, utilVars>>

\* the timer of request k of the call fires (it is never cleared).  If the race
\* of that request is unsettled, the call fails with the timeout error;
\* otherwise the rejection is that of a promise nothing waits for.
Timeout(c, k) ==
    /\ k \in 1..Len(calls[c].timers)
    /\ calls[c].timers[k] = "armed"
    /\ calls' = [calls EXCEPT ![c] =
                    IF RaceUndecided(@, k)
                    THEN Reject([@ EXCEPT !.timers[k] = "fired"], "Request timeout")
                    ELSE [@ EXCEPT !.timers[k] = "fired"]]
    /\ UNCHANGED <<ctorState, ctorArg, ctorError, orcidId, baseURL, timeout, works,
                   queryVars, idVars, parserVars, utilVars>>

\* the body of the listing response is parsed: fetchWorks goes on to fetchWithCodes
ListingBody(c, data) ==
    /\ calls[c].pc = "listing" /\ calls[c].phase = "json"
    /\ calls' = [calls EXCEPT ![c] =
                    BeginFetchWithCodes(@, ListedCodes(data), baseURL, orcidId)]
    /\ UNCHANGED <<ctorState, ctorArg, ctorError, orcidId, baseURL, timeout, works,
                   queryVars, idVars, parserVars, utilVars>>

\* the body of the bulk response is parsed: fetchWithCodes returns the works, and
\* getWorks stores them in this.works and returns this.works
BulkBodyParsed(c) ==
    /\ calls[c].pc = "bulk" /\ calls[c].phase = "json"
    /\ LET fetched == BulkWorks(BulkBody(calls[c].codes))
       IN  /\ calls' = [calls EXCEPT ![c] = ReturnWorks(@, fetched)]
           /\ works' = CacheAfter(calls[c], fetched.v, works)
    /\ UNCHANGED <<ctorState, ctorArg, ctorError, orcidId, baseURL, timeout,
                   queryVars, idVars, parserVars, utilVars>>

Init ==
    /\ ws = <<>> /\ QueryIdle /\ IdIdle /\ ParserIdle /\ ClientIdle /\ UtilIdle

Next ==
    \/ \E id \in CtorArgs, config \in Configs : Construct(id, config)
    \/ \E c \in 1..MaxCalls :
          \/ CallGetWorks(c)
          \/ CallFetchWorks(c, Undefined)
          \/ \E status \in Statuses : Respond(c, status)
          \/ \E k \in 1..RequestsPerCall : Timeout(c, k)
          \/ \E data \in ListingBodies : ListingBody(c, data)
          \/ BulkBodyParsed(c)

Spec == Init /\ [][Next]_vars

\* the client with timers that fire: setTimeout runs its callback once the delay
\* has passed, whatever the transport does, so a timer that is armed does not
\* stay armed forever.  Nothing makes the registry answer.
TimersFire == \A c \in 1..MaxCalls, k \in 1..RequestsPerCall : WF_vars(Timeout(c, k))

LiveSpec == Init /\ [][Next]_vars /\ TimersFire

\* the client with direct calls of fetchWithCodes, up to and beyond MaxPutCodes
\* put codes
LimitNext ==
    \/ \E id \in CtorArgs, config \in Configs : Construct(id, config)
    \/ \E c \in 1..MaxCalls :
          \/ \E putCodes \in CodeLists : CallFetchWithCodes(c, putCodes)
          \/ \E status \in Statuses : Respond(c, status)
          \/ \E k \in 1..RequestsPerCall : Timeout(c, k)
          \/ BulkBodyParsed(c)

LimitSpec == Init /\ [][LimitNext]_vars

(***************************************************************************)
(* Properties of the client.                                               *)
(***************************************************************************)
\* C1: once a getWorks() call has completed successfully, every getWorks() call
\* made afterwards returns the cached collection at once and issues no request,
\* whatever collection the first fetch returned.
C1_LaterGetWorksUsesCache ==
    [][\A c, d \in 1..MaxCalls :
          (/\ calls[d].op = "getWorks" /\ calls[d].pc = "resolved"
           /\ calls[c].op = "none" /\ calls'[c].op = "getWorks")
          => (/\ calls'[c].pc = "resolved"
              /\ calls'[c].requests = <<>>
              /\ calls'[c].result = calls[d].result)]_vars

\* a getWorks() call completed with a non-empty collection and a later one was
\* answered from the cache
C1_Witness ==
    \E c, d \in 1..MaxCalls :
        /\ d < c
        /\ calls[d].op = "getWorks" /\ calls[d].pc = "resolved"
        /\ Len(calls[d].result.v) > 0
        /\ calls[c].op = "getWorks" /\ calls[c].pc = "resolved"
        /\ calls[c].requests = <<>>

TooManyCodesMessage == "fetchWithCodes: Too many put codes (max 100)"

\* C3: fetchWithCodes(codes) fails with the too-many-codes error exactly when
\* codes has more than 100 entries, and then it has issued no request; no other
\* call fails with that error.
C3_TooManyCodesExactlyAbove100 ==
    \A c \in 1..MaxCalls :
        /\ calls[c].op = "fetchWithCodes" =>
              /\ (calls[c].error = TooManyCodesMessage) <=> (Len(calls[c].arg.v) > 100)
              /\ Len(calls[c].arg.v) > 100 =>
                    (calls[c].pc = "rejected" /\ calls[c].requests = <<>>)
        /\ calls[c].op # "fetchWithCodes" => calls[c].error # TooManyCodesMessage

\* one call with 101 put codes was refused without a request, and one with 100
\* put codes has issued its request
C3_Witness ==
    \E c, d \in 1..MaxCalls :
        /\ calls[c].op = "fetchWithCodes" /\ Len(calls[c].arg.v) = 101
        /\ calls[c].pc = "rejected" /\ calls[c].requests = <<>>
        /\ calls[d].op = "fetchWithCodes" /\ Len(calls[d].arg.v) = 100
        /\ Len(calls[d].requests) = 1 /\ calls[d].pc = "resolved"

\* C5: constructing the client with an empty or falsy identifier fails with the
\* identifier-required error; no instance is created and no request is made.
C5_EmptyIdentifierRefused ==
    (ctorState # "not called" /\ ctorArg \in {Undefined, Null, Str("")}) =>
        /\ ctorState = "threw"
        /\ ctorError = "ORCID ID is required"
        /\ orcidId = "" /\ baseURL = "" /\ timeout = 0
        /\ \A c \in 1..MaxCalls : calls[c] = NoCall

\* the constructor was called with the empty string and threw
C5_Witness ==
    ctorState = "threw" /\ ctorArg = Str("") /\ ctorError = "ORCID ID is required"

(***************************************************************************)
(* filterByYearRange.                                                      *)
(***************************************************************************)
\* x >= y and x <= y on JavaScript numbers: false when an operand is NaN
JsGe(x, y) == x.t = "number" /\ y.t = "number" /\ x.v >= y.v
JsLe(x, y) == x.t = "number" /\ y.t = "number" /\ x.v <= y.v

\* array.filter(keep): the elements at the kept positions, in order
RECURSIVE FilterAt(_, _, _)
FilterAt(arr, keep, i) ==
    IF i > Len(arr) THEN <<>>
    ELSE (IF i \in keep THEN <<arr[i]>> ELSE <<>>) \o FilterAt(arr, keep, i + 1)

\* a variant of the range test that leaves out the end year
InYearRangeBeforeEnd(work, startYear, endYear) ==
    LET year == Get(work, "publicationYear")
    IN  TypeOf(year) = "number" /\ JsGe(year, startYear) /\ ~JsGe(year, endYear)

\* the callback of filterByYearRange
InYearRange(work, startYear, endYear) ==
    LET year == Get(work, "publicationYear")
    IN  TypeOf(year) = "number" /\ JsGe(year, startYear) /\ JsLe(year, endYear)

filterByYearRange(list, startYear, endYear) ==
    FilterAt(list, {i \in 1..Len(list) : InYearRange(list[i], startYear, endYear)}, 1)

\* the works filterByYearRange is applied to: object literals with and without a
\* year, and works of the response parser with and without a year
FilterWorks ==
    {LiteralWork(Str("book"), y, Undefined, Undefined) :
        y \in {Undefined, Num(2019), Num(2020), Num(2021)}}
    \cup {_parseWork(RawWork(Str("book"), y, Undefined, Undefined)) :
            y \in {Undefined, Str("2020")}}

FilterYears == {Num(2019), Num(2020), Num(2021)}

\* filterByYearRange(ws, startYear, endYear)
FilterByYearRange(startYear, endYear) ==
    /\ utilCall = [op |-> "none"]
    /\ utilCall' = [op |-> "filterByYearRange", startYear |-> startYear, endYear |-> endYear]
    /\ utilResult' = Arr(filterByYearRange(ws, startYear, endYear))
    /\ UNCHANGED <<queryVars, idVars, parserVars, clientVars>>

FilterInit ==
    ws \in Collections(FilterWorks) /\ QueryIdle /\ IdIdle /\ ParserIdle /\ ClientIdle /\ UtilIdle
FilterNext == \E startYear, endYear \in FilterYears : FilterByYearRange(startYear, endYear)
FilterSpec == FilterInit /\ [][FilterNext]_vars

\* s is ws with some works left out, order kept, and it holds exactly the works
\* at the positions in keep
IsSubsequenceAt(s, keep) ==
     \E pos \in [1..Len(s) -> 1..Len(ws)] :
        /\ \A i, j \in 1..Len(s) : i < j => pos[i] < pos[j]
        /\ {pos[i] : i \in 1..Len(s)} = keep
        /\ \A i \in 1..Len(s) : s[i] = ws[pos[i]]

\* C12: filterByYearRange(works, start, end) returns, in input order, exactly the
\* works whose publicationYear is a number with start <= year <= end; works
\* without a year are never returned, and with start = end = y exactly the works
\* of year y.
C12_FilterByYearRangeInclusive ==
    utilCall.op = "filterByYearRange" =>
        /\ IsSubsequenceAt(utilResult.v,
              {i \in 1..Len(ws) :
                  /\ HasYear(ws[i])
                  /\ utilCall.startYear.v <= Get(ws[i], "publicationYear").v
                  /\ Get(ws[i], "publicationYear").v <= utilCall.endYear.v})
        /\ \A i \in 1..Len(utilResult.v) : HasYear(utilResult.v[i])
        /\ utilCall.startYear = utilCall.endYear =>
              IsSubsequenceAt(utilResult.v,
                  {i \in 1..Len(ws) : Get(ws[i], "publicationYear") = utilCall.startYear})

\* a range of two years kept a work of its last and a work of its first year, in
\* input order, and dropped a parsed work without a year
C12_Witness ==
    /\ utilCall.op = "filterByYearRange"
    /\ utilCall.startYear = Num(2019) /\ utilCall.endYear = Num(2020)
    /\ Len(ws) = 3 /\ Len(utilResult.v) = 2
    /\ Get(utilResult.v[1], "publicationYear") = Num(2020)
    /\ Get(utilResult.v[2], "publicationYear") = Num(2019)
    /\ \E i \in 1..Len(ws) : Get(ws[i], "publicationYear") = NaN

(***************************************************************************)
(* groupBy.                                                                *)
(***************************************************************************)
\* the properties an object literal {} inherits from Object.prototype: reading one
\* of them from the accumulator gives a function (or the prototype), not undefined
ObjectPrototypeKeys ==
    {"constructor", "toString", "toLocaleString", "valueOf", "hasOwnProperty",
     "isPrototypeOf", "propertyIsEnumerable", "__proto__"}

TypeErrorThrown == [t |-> "throw", v |-> "TypeError"]

\* value != null ? String(value) : 'unknown'
GroupKey(value) ==
    IF value.t \notin {"undefined", "null"} THEN JsString(value) ELSE "unknown"

\* one call of the reducer: (groups[groupKey] ||= []).push(work); the accumulator
\* is a function from its own keys to buckets, or the error that was thrown
GroupStep(groups, work, key) ==
    LET groupKey == GroupKey(Get(work, key))
    IN  IF groups = TypeErrorThrown THEN groups
        ELSE IF groupKey \in DOMAIN groups
             THEN [groups EXCEPT ![groupKey] = Append(@, work)]
        ELSE IF groupKey \in ObjectPrototypeKeys
             THEN TypeErrorThrown
        ELSE [k \in DOMAIN groups \cup {groupKey} |->
                 IF k = groupKey THEN <<work>> ELSE groups[k]]

RECURSIVE GroupLoop(_, _, _, _)
GroupLoop(groups, list, key, i) ==
    IF i > Len(list) THEN groups
    ELSE GroupLoop(GroupStep(groups, list[i], key), list, key, i + 1)

\* works.reduce(reducer, {})
groupBy(list, key) ==
    LET groups == GroupLoop([k \in {} |-> <<>>], list, key, 1)
    IN  IF groups = TypeErrorThrown THEN groups ELSE Obj(groups)

GroupWork(type, year, journalTitle) ==
    ObjectOf([k \in {"type", "publicationYear", "journalTitle"} |->
                CASE k = "type" -> type
                  [] k = "publicationYear" -> year
                  [] k = "journalTitle" -> journalTitle])

\* the works groupBy is applied to
GroupWorks ==
    {GroupWork(ty, y, j) :
        ty \in {Null, Str("book")},
        y \in {Undefined, Num(2020)},
        j \in {Undefined, Str("J1"), Str("constructor")}}
    \cup {_parseWork(EmptyObj)}

GroupFields == {"type", "publicationYear", "journalTitle", "missingField"}

\* groupBy(ws, key)
GroupBy(key) ==
    /\ utilCall = [op |-> "none"]
    /\ utilCall' = [op |-> "groupBy", key |-> key]
    /\ utilResult' = groupBy(ws, key)
    /\ UNCHANGED <<queryVars, idVars, parserVars, clientVars>>

GroupInit ==
    ws \in Collections(GroupWorks) /\ QueryIdle /\ IdIdle /\ ParserIdle /\ ClientIdle /\ UtilIdle
GroupNext == \E key \in GroupFields : GroupBy(key)
GroupSpec == GroupInit /\ [][GroupNext]_vars

\* the name of the bucket the specification puts a work in
BucketName(work, key) ==
    LET value == Get(work, key)
    IN  IF value.t \in {"undefined", "null"} THEN "unknown" ELSE JsString(value)

\* C13: groupBy(works, key) returns a stable partition of the input: the bucket
\* of each name holds, in input order, exactly the works whose value for key has
\* that string form ("unknown" when the value is absent or null), there is no
\* other bucket, and for a field no work has all works are in "unknown".
C13_GroupByStablePartition ==
    utilCall.op = "groupBy" =>
        /\ utilResult.t = "object"
        /\ DOMAIN utilResult.v = {BucketName(ws[i], utilCall.key) : i \in 1..Len(ws)}
        /\ \A name \in DOMAIN utilResult.v :
              IsSubsequenceAt(utilResult.v[name],
                  {i \in 1..Len(ws) : BucketName(ws[i], utilCall.key) = name})

\* groupBy returned two buckets, one of them "unknown", for a full collection
C13_Witness ==
    /\ utilCall.op = "groupBy" /\ utilCall.key = "journalTitle"
    /\ Len(ws) = 3
    /\ utilResult.t = "object"
    /\ DOMAIN utilResult.v = {"J1", "unknown"}
    /\ Len(utilResult.v["unknown"]) = 2

(***************************************************************************)
(* WorkType.fromString of constants.ts.                                    *)
(***************************************************************************)
LowerCaseLetters == "abcdefghijklmnopqrstuvwxyz"
UpperCaseLetters == "ABCDEFGHIJKLMNOPQRSTUVWXYZ"

\* c.toUpperCase() for one character
UpperChar(c) ==
    IF \E i \in 1..26 : SubSeq(LowerCaseLetters, i, i) = c
    THEN LET i == CHOOSE j \in 1..26 : SubSeq(LowerCaseLetters, j, j) = c
         IN  SubSeq(UpperCaseLetters, i, i)
    ELSE c

\* str.toUpperCase()
RECURSIVE ToUpperCase(_)
ToUpperCase(s) ==
    IF Len(s) = 0 THEN ""
    ELSE UpperChar(SubSeq(s, 1, 1)) \o ToUpperCase(SubSeq(s, 2, Len(s)))

\* str.replace(/\s+/g, "_"): every run of whitespace becomes one underscore
RECURSIVE ReplaceWhitespaceRuns(_)
ReplaceWhitespaceRuns(s) ==
    IF Len(s) = 0 THEN ""
    ELSE IF SubSeq(s, 1, 1) \in Whitespace
         THEN "_" \o ReplaceWhitespaceRuns(TrimStart(s))
         ELSE SubSeq(s, 1, 1) \o ReplaceWhitespaceRuns(SubSeq(s, 2, Len(s)))

\* str.trim().toUpperCase().replace(/\s+/g, "_")
NameKey(str) == ReplaceWhitespaceRuns(ToUpperCase(Trim(str)))

\* a variant without the fallback to the values
ValueFallbackMissing(str) == WORK_TYPES["UNSUPPORTED"]

\* values.includes(str) ? str : WORK_TYPES.UNSUPPORTED
ValueFallback(str) ==
    IF str \in WorkTypeValues THEN str ELSE WORK_TYPES["UNSUPPORTED"]

\* WorkType.fromString(str)
fromString(str) ==
    LET key == NameKey(str)
    IN  IF key \in DOMAIN WORK_TYPES THEN WORK_TYPES[key] ELSE ValueFallback(str)
\* v with every hyphen replaced by sep
RECURSIVE ReplaceHyphens(_, _)
ReplaceHyphens(v, sep) ==
    IF Len(v) = 0 THEN ""
    ELSE (IF SubSeq(v, 1, 1) = "-" THEN sep ELSE SubSeq(v, 1, 1))
            \o ReplaceHyphens(SubSeq(v, 2, Len(v)), sep)

\* the human-readable forms of a value: its words separated by whitespace, in
\* lower or upper case, with or without surrounding whitespace
HumanForms(v) ==
    {pad \o (IF upper THEN ToUpperCase(ReplaceHyphens(v, sep)) ELSE ReplaceHyphens(v, sep))
         \o pad :
        sep \in {" ", "  "}, pad \in {"", "  "}, upper \in BOOLEAN}

\* the strings fromString is applied to: the values, the values with surrounding
\* whitespace, their human-readable forms, the constant names, and other text
TypeInputs ==
    WorkTypeValues
    \cup {" " \o v \o "  " : v \in WorkTypeValues}
    \cup UNION {HumanForms(v) : v \in WorkTypeValues}
    \cup DOMAIN WORK_TYPES
    \cup {"", "unknown-type", "not a type"}

\* WorkType.fromString(str)
FromString(str) ==
    /\ utilCall = [op |-> "none"]
    /\ utilCall' = [op |-> "fromString", str |-> str]
    /\ utilResult' = Str(fromString(str))
    /\ UNCHANGED <<queryVars, idVars, parserVars, clientVars>>

TypeInit == ws = <<>> /\ QueryIdle /\ IdIdle /\ ParserIdle /\ ClientIdle /\ UtilIdle
TypeNext == \E str \in TypeInputs : FromString(str)
TypeSpec == TypeInit /\ [][TypeNext]_vars

\* C14: for every value string v of the type vocabulary, fromString(v) is v.
C14_FromStringFixesValues ==
    (utilCall.op = "fromString" /\ utilCall.str \in WorkTypeValues) =>
        utilResult = Str(utilCall.str)

\* fromString was applied to a value that is no constant name, to the value of a
\* legacy alias, and to 'unsupported'
C14_Witness ==
    /\ utilCall.op = "fromString"
    /\ utilCall.str \in {"journal-article", "spin-off-company", "unsupported"}
    /\ utilResult = Str(utilCall.str)

\* C15: when the name lookup fails, the trimmed input is compared with the
\* values: a value with surrounding whitespace gives that value, and an input
\* that is neither a name nor a value gives UNSUPPORTED.
C15_FallbackComparesTrimmedInput ==
    (utilCall.op = "fromString" /\ NameKey(utilCall.str) \notin DOMAIN WORK_TYPES) =>
        utilResult = IF Trim(utilCall.str) \in WorkTypeValues
                     THEN Str(Trim(utilCall.str))
                     ELSE Str("unsupported")

\* C16: every human-readable form of a vocabulary value v (words separated by
\* runs of whitespace, any letter case, surrounding whitespace) parses to v.
C16_HumanReadableFormParses ==
    utilCall.op = "fromString" =>
        \A v \in WorkTypeValues :
            utilCall.str \in HumanForms(v) => utilResult = Str(v)

\* a human-readable form whose words are the constant's name is parsed
C16_Witness ==
    /\ utilCall.op = "fromString"
    /\ utilCall.str = "  CONFERENCE  PAPER  "
    /\ utilResult = Str("conference-paper")

(***************************************************************************)
(* Properties of the response parser for missing fields.                   *)
(***************************************************************************)
EpochDate == [t |-> "date", v |-> 0]

\* C17: for a raw object in which any subset of the optional fields is missing,
\* parseSummary and parseWork return a record (they do not throw) in which
\* externalIds and contributors are sequences, empty when the source has none,
\* title and citation are absent when the source has none, and createdDate and
\* lastModifiedDate are the Unix epoch when the source has none.
C17_MissingFieldsParse ==
    parsedBy # "none" =>
        LET has(k) == k \in DOMAIN rawInput.v
            full == parsedBy # "orcid-parser summary"
        IN  /\ parsed.t = "object"
            /\ Get(parsed, "externalIds").t = "array"
            /\ ~has("external-ids") => Get(parsed, "externalIds") = Arr(<<>>)
            /\ full => Get(parsed, "contributors").t = "array"
            /\ (full /\ ~has("contributors")) => Get(parsed, "contributors") = Arr(<<>>)
            /\ ~has("title") => Get(parsed, "title") = Undefined
            /\ (full /\ ~has("citation")) => Get(parsed, "citation") = Undefined
            /\ ~has("created-date") => Get(parsed, "createdDate") = EpochDate
            /\ ~has("last-modified-date") => Get(parsed, "lastModifiedDate") = EpochDate

\* the parser of orcid-parser.ts was applied to the empty object
C17_Witness ==
    /\ parsedBy = "orcid-parser" /\ rawInput = EmptyObj
    /\ Get(parsed, "title") = Undefined
    /\ Get(parsed, "externalIds") = Arr(<<>>)
    /\ Get(parsed, "createdDate") = EpochDate
\* the number the specification reads from a source value: the value when it is
\* a number or a string of digits, the not-a-number sentinel otherwise
NumericValueOrNaN(src) ==
    IF src.t = "number" THEN src
    ELSE IF /\ src.t = "string"
            /\ Len(src.v) > 0
            /\ \A i \in 1..Len(src.v) : IsDigit(SubSeq(src.v, i, i))
         THEN Num(DecimalValue(src.v))
    ELSE NaN

\* C18: publicationYear, publicationMonth and publicationDay of a parsed record
\* are the numeric value of the source when it is a number or numeric string,
\* and the not-a-number sentinel when it is absent, null, the empty string or
\* non-numeric text; never zero for such a source.
C18_DatePartsNumericOrNaN ==
    parsedBy # "none" =>
        \A part \in {"year", "month", "day"} :
            LET src == OptGet(OptGet(Get(rawInput, "publication-date"), part), "value")
                field == CASE part = "year" -> "publicationYear"
                           [] part = "month" -> "publicationMonth"
                           [] part = "day" -> "publicationDay"
            IN  Get(parsed, field) = NumericValueOrNaN(src)

\* a numeric string was parsed to its number and a missing month to the sentinel
C18_Witness ==
    /\ parsedBy = "orcid-parser summary"
    /\ OptGet(OptGet(Get(rawInput, "publication-date"), "year"), "value") = Str("2021")
    /\ Get(parsed, "publicationYear") = Num(2021)
    /\ Get(parsed, "publicationMonth") = NaN

(***************************************************************************)
(* The other operations of the client: fetchWorks with put codes and       *)
(* fetchWorkSummaries.                                                     *)
(***************************************************************************)
\* a variant that reads the last summary of the group
LastSummary(g) ==
    LET list == Get(g, "work-summary")
    IN  IF list.t = "array" /\ Len(list.v) > 0 THEN list.v[Len(list.v)] ELSE Undefined

\* g['work-summary']?.[0]
FirstSummary(g) ==
    LET list == Get(g, "work-summary")
    IN  IF list.t = "array" /\ Len(list.v) > 0 THEN list.v[1] ELSE Undefined

\* what fetchWorkSummaries returns for the body of the listing response
WorkSummaries(data) ==
    LET groups == OrElse(Get(data, "group"), Arr(<<>>)).v
        firsts == [i \in 1..Len(groups) |-> FirstSummary(groups[i])]
        kept == FilterAt(firsts, {i \in 1..Len(firsts) : Truthy(firsts[i])}, 1)
    IN  Arr([i \in 1..Len(kept) |-> _parseWorkSummary(kept[i])])

\* client.fetchWorkSummaries() up to its first await
CallFetchWorkSummaries(c) ==
    /\ Fresh(c)
    /\ calls' = [calls EXCEPT ![c] =
                    [IssueRequest([NoCall EXCEPT !.op = "fetchWorkSummaries"],
                                  ListingUrl(baseURL, orcidId)) EXCEPT !.pc = "summaries"]]
    /\ UNCHANGED <<ctorState, ctorArg, ctorError, orcidId, baseURL, timeout, works,
                   queryVars, idVars, parserVars, utilVars>>

\* the body of the listing response is parsed: fetchWorkSummaries returns
SummariesBody(c, data) ==
    /\ calls[c].pc = "summaries" /\ calls[c].phase = "json"
    /\ calls' = [calls EXCEPT ![c] = Resolve(@, WorkSummaries(data))]
    /\ UNCHANGED <<ctorState, ctorArg, ctorError, orcidId, baseURL, timeout, works,
                   queryVars, idVars, parserVars, utilVars>>

\* the arguments fetchWorks is called with: nothing, null, the empty string, the
\* empty list, one put code as a number and as a string, and a list
FetchArgs ==
    {Undefined, Null, Str(""), Arr(<<>>), Num(7), Str("8"), Arr(<<Num(3), Str("1")>>)}

RegistryId == Str("https://orcid.org/0000-0002-1825-0097")

\* the identifiers the client is constructed with: bare, with the registry's
\* prefix, and the prefix alone
IdArgs ==
    {Str("0000-0002-1825-0097"), RegistryId, Str("http://orcid.org/0000-0002-1825-0097"),
     Str("https://orcid.org/")}

\* configurations without and with a base URL
BaseConfigs == {EmptyObj, Obj([k \in {"baseURL"} |-> Str("https://api.example.org/v3.0")])}

\* bodies of the listing response: no group property, no groups, groups with
\* two summaries and without a summary list, and groups with one summary each
\* and with an empty summary list
SummaryListings ==
    {EmptyObj, Obj([k \in {"group"} |-> Arr(<<>>)]), FullListing,
     Obj([k \in {"group"} |-> Arr(<<Group(<<>>), Group(<<2>>), Group(<<1>>)>>)])}

\* the client with fetchWorkSummaries
SummariesNext ==
    \/ \E id \in IdArgs, config \in BaseConfigs : Construct(id, config)
    \/ \E c \in 1..MaxCalls :
          \/ CallFetchWorkSummaries(c)
          \/ \E status \in Statuses : Respond(c, status)
          \/ \E k \in 1..RequestsPerCall : Timeout(c, k)
          \/ \E data \in SummaryListings : SummariesBody(c, data)

SummariesSpec == Init /\ [][SummariesNext]_vars

\* the client with all its fetching operations, on one identifier and one
\* listing
CacheNext ==
    \/ Construct(RegistryId, EmptyObj)
    \/ \E c \in 1..MaxCalls :
          \/ CallGetWorks(c)
          \/ \E putCodes \in {Undefined, Num(7)} : CallFetchWorks(c, putCodes)
          \/ CallFetchWithCodes(c, <<Num(7)>>)
          \/ CallFetchWorkSummaries(c)
          \/ \E status \in Statuses : Respond(c, status)
          \/ \E k \in 1..RequestsPerCall : Timeout(c, k)
          \/ ListingBody(c, FullListing)
          \/ SummariesBody(c, FullListing)
          \/ BulkBodyParsed(c)

CacheSpec == Init /\ [][CacheNext]_vars

(***************************************************************************)
(* The convenience methods of the client.                                  *)
(***************************************************************************)
\* filterByType(works, types)
filterByType(list, types) ==
    LET typeArray == IF types.t = "array" THEN types.v ELSE <<types>>
        Kept(work) == /\ Truthy(Get(work, "type"))
                      /\ \E i \in 1..Len(typeArray) : typeArray[i] = Get(work, "type")
    IN  FilterAt(list, {i \in 1..Len(list) : Kept(list[i])}, 1)

\* what the query utility of a method can return for the works: one value, or
\* for a sort with an inconsistent comparator one of several
UtilityResults(op, arg, list) ==
    CASE op = "groupBy" -> {groupBy(list, arg.v)}
      [] op = "filterByType" -> {Arr(filterByType(list, arg))}
      [] op = "filterByYearRange" -> {Arr(filterByYearRange(list, arg.v[1], arg.v[2]))}
      [] op = "sortByDate" ->
            {Arr(r) : r \in SortOutcomes(list, IF arg = Undefined THEN "desc" ELSE arg.v)}
      [] op = "getStats" -> {[t |-> "stats", v |-> getStats(list)]}

\* the method calls of the model, with their arguments
MethodCalls ==
    {[op |-> "groupBy", arg |-> Str("type")],
     [op |-> "filterByType", arg |-> Str("book")],
     [op |-> "filterByType", arg |-> Arr(<<Str("journal-article"), Str("other")>>)],
     [op |-> "filterByYearRange", arg |-> Arr(<<Num(2019), Num(2020)>>)],
     [op |-> "sortByDate", arg |-> Undefined],
     [op |-> "sortByDate", arg |-> Str("asc")],
     [op |-> "getStats", arg |-> Undefined]}

\* client.groupBy(property), client.filterByType(types), ...: the method up to
\* its await of this.getWorks()
CallMethod(c, m) ==
    /\ Fresh(c)
    /\ calls' = [calls EXCEPT ![c] =
                    BeginGetWorks([NoCall EXCEPT !.op = m.op, !.arg = m.arg],
                                  works, baseURL, orcidId)]
    /\ UNCHANGED <<ctorState, ctorArg, ctorError, orcidId, baseURL, timeout, works,
                   queryVars, idVars, parserVars, utilVars>>

\* the method goes on after its await: it returns what the query utility
\* returns for the works getWorks gave it, or fails as the utility fails
MethodReturns(c) ==
    /\ calls[c].pc = "got"
    /\ \E value \in UtilityResults(calls[c].op, calls[c].arg, calls[c].result.v) :
          calls' = [calls EXCEPT ![c] =
                      IF value = TypeErrorThrown
                      THEN Reject([@ EXCEPT !.result = Undefined], "TypeError")
                      ELSE Resolve(@, value)]
    /\ UNCHANGED <<ctorState, ctorArg, ctorError, orcidId, baseURL, timeout, works,
                   queryVars, idVars, parserVars, utilVars>>

MethodNext ==
    \/ Construct(RegistryId, EmptyObj)
    \/ \E c \in 1..MaxCalls :
          \/ \E m \in MethodCalls : CallMethod(c, m)
          \/ \E status \in Statuses : Respond(c, status)
          \/ \E k \in 1..RequestsPerCall : Timeout(c, k)
          \/ \E data \in ListingBodies : ListingBody(c, data)
          \/ BulkBodyParsed(c)
          \/ MethodReturns(c)

MethodSpec == Init /\ [][MethodNext]_vars

\* the client with fetchWorks called in every form, next to getWorks
FetchNext ==
    \/ Construct(RegistryId, EmptyObj)
    \/ \E c \in 1..MaxCalls :
          \/ CallGetWorks(c)
          \/ \E putCodes \in FetchArgs : CallFetchWorks(c, putCodes)
          \/ \E status \in Statuses : Respond(c, status)
          \/ \E k \in 1..RequestsPerCall : Timeout(c, k)
          \/ \E data \in SummaryListings : ListingBody(c, data)
          \/ BulkBodyParsed(c)

FetchSpec == Init /\ [][FetchNext]_vars

(***************************************************************************)
(* Properties of the requests of the client.                               *)
(***************************************************************************)
NotOk(status) == status # 0 /\ ~(status >= 200 /\ status <= 299)

\* C19: a call whose request was answered with a non-OK status has failed with
\* the HTTP error that carries the status, which is not the timeout error; it
\* has no result, and from then on it issues no request and stays failed.
C19_NonOkResponseFailsCall ==
    [][\A c \in 1..MaxCalls :
          NotOk(calls'[c].status) =>
              /\ calls'[c].pc = "rejected"
              /\ calls'[c].error = "HTTP error! status: " \o NatToString(calls'[c].status)
              /\ calls'[c].error # "Request timeout"
              /\ calls'[c].result = Undefined
              /\ NotOk(calls[c].status) =>
                    /\ calls'[c].requests = calls[c].requests
                    /\ calls'[c].error = calls[c].error]_vars

\* the listing request of a fetchWorks call was answered with status 500: the
\* call failed and no bulk request followed
C19_Witness ==
    \E c \in 1..MaxCalls :
        /\ calls[c].op = "fetchWorks" /\ calls[c].status = 500
        /\ calls[c].pc = "rejected" /\ calls[c].error = "HTTP error! status: 500"
        /\ Len(calls[c].requests) = 1

\* C20: the race of a request is decided once.  When the timer fires while the
\* call waits for the response, the call fails with the timeout error and the
\* response that arrives later changes nothing; when the response arrives first
\* the call goes on with it, and the timer that fires later changes nothing.
C20_RaceDecidedOnce ==
    [][\A c \in 1..MaxCalls :
          LET old == calls[c]
              new == calls'[c]
              last == Len(old.requests)
              waiting == old.phase = "fetch"
          IN  /\ old.pc \in {"resolved", "rejected"} =>
                    /\ new.pc = old.pc /\ new.result = old.result
                    /\ new.error = old.error /\ new.requests = old.requests
              /\ \A k \in 1..Len(old.timers) :
                    (old.timers[k] = "armed" /\ new.timers[k] = "fired") =>
                        IF waiting /\ k = last
                        THEN new.pc = "rejected" /\ new.error = "Request timeout"
                        ELSE new = [old EXCEPT !.timers[k] = "fired"]
              /\ (old.response = "pending" /\ new.response = "arrived") =>
                    IF waiting
                    THEN /\ new.error # "Request timeout"
                         /\ new.phase = "json" \/ new.pc = "rejected"
                    ELSE new = [old EXCEPT !.response = "arrived"]]_vars

\* one call failed with the timeout error and its response arrived afterwards;
\* another call resolved and both of its timers fired without effect
C20_Witness ==
    \E c, d \in 1..MaxCalls :
        /\ calls[c].pc = "rejected" /\ calls[c].error = "Request timeout"
        /\ calls[c].response = "arrived"
        /\ calls[d].pc = "resolved"
        /\ calls[d].timers = <<"fired", "fired">>

(***************************************************************************)
(* Properties of fetchWorks and fetchWorkSummaries.                        *)
(***************************************************************************)
\* the put codes fetchWorks was called with are absent or empty
NoCodesGiven(putCodes) == putCodes \in {Undefined, Null, Str(""), Arr(<<>>)}

\* C21: fetchWorks(codes) issues its requests by the shape of codes.  Without
\* codes, or with empty codes (the empty list included), it issues the listing
\* request and then one bulk request for at most 100 listed put codes; with a
\* single value, exactly one bulk request for that code; with a list, exactly
\* one bulk request for the entries as numbers, in order, joined by commas.  A
\* call that returned has issued a request.
C21_RequestsByShapeOfCodes ==
    \A c \in 1..MaxCalls :
        LET call == calls[c]
            asList == IF call.arg.t = "array" THEN call.arg.v ELSE <<call.arg>>
            numbers == [i \in 1..Len(asList) |-> ToNumber(asList[i])]
        IN  call.op = "fetchWorks" =>
              /\ NoCodesGiven(call.arg) =>
                    /\ Len(call.requests) \in {1, 2}
                    /\ call.requests[1] = ListingUrl(baseURL, orcidId)
                    /\ Len(call.requests) = 2 =>
                          /\ Len(call.codes) <= 100
                          /\ call.requests[2] = BulkUrl(baseURL, orcidId, call.codes)
              /\ ~NoCodesGiven(call.arg) =>
                    call.requests = <<BulkUrl(baseURL, orcidId, numbers)>>
              /\ call.pc = "resolved" => Len(call.requests) >= 1

\* fetchWorks() returned after the listing and the bulk request, and
\* fetchWorks([3, '1']) asked for the path .../works/3,1
C21_Witness ==
    \E c, d \in 1..MaxCalls :
        /\ calls[c].op = "fetchWorks" /\ calls[c].arg = Undefined
        /\ calls[c].pc = "resolved" /\ Len(calls[c].requests) = 2
        /\ calls[d].op = "fetchWorks" /\ calls[d].arg = Arr(<<Num(3), Str("1")>>)
        /\ calls[d].requests = <<"https://pub.orcid.org/v3.0/0000-0002-1825-0097/works/3,1">>

\* the summaries of the groups that have one: the first entry of each non-empty
\* work-summary list, parsed, in group order
RECURSIVE OnePerGroup(_)
OnePerGroup(groups) ==
    IF groups = <<>> THEN <<>>
    ELSE LET list == Get(Head(groups), "work-summary")
         IN  (IF list.t = "array" /\ list.v # <<>>
              THEN <<_parseWorkSummary(Head(list.v))>> ELSE <<>>)
             \o OnePerGroup(Tail(groups))

\* C22: fetchWorkSummaries() issues exactly one request, to {baseURL}/{id}/works
\* with the sanitized identifier, and returns one summary per group that has a
\* non-empty work-summary list, parsed from the group's first entry, in group
\* order.
C22_OneSummaryPerGroup ==
    [][\A c \in 1..MaxCalls :
          /\ calls'[c].op = "fetchWorkSummaries" =>
                calls'[c].requests =
                    <<baseURL' \o "/" \o _sanitizeOrcidId(ctorArg'.v) \o "/works">>
          /\ \A data \in SummaryListings :
                SummariesBody(c, data) =>
                    /\ calls'[c].pc = "resolved"
                    /\ calls'[c].result =
                          Arr(OnePerGroup(IF Get(data, "group").t = "array"
                                          THEN Get(data, "group").v ELSE <<>>))]_vars

\* fetchWorkSummaries() asked for the listing of the identifier without its
\* prefix and returned the summaries 1 and 2 of the groups (1, 3), none, (2)
C22_Witness ==
    \E c \in 1..MaxCalls :
        /\ ctorArg = RegistryId
        /\ calls[c].op = "fetchWorkSummaries" /\ calls[c].pc = "resolved"
        /\ calls[c].requests = <<"https://pub.orcid.org/v3.0/0000-0002-1825-0097/works">>
        /\ Len(calls[c].result.v) = 2
        /\ Get(calls[c].result.v[1], "putCode") = Num(1)
        /\ Get(calls[c].result.v[2], "putCode") = Num(2)

\* C30: after every successful construction the stored identifier is non-empty,
\* so the path of every request has a non-empty identifier segment between the
\* base URL and /works.
C30_StoredIdentifierNonEmpty ==
    ctorState = "constructed" =>
        /\ orcidId # ""
        /\ \A c \in 1..MaxCalls : \A k \in 1..Len(calls[c].requests) :
              ~StartsWith(calls[c].requests[k], baseURL \o "//")

\* the client was constructed from an identifier with the registry's prefix,
\* stores the identifier without it and has issued a request for it
C30_Witness ==
    /\ ctorState = "constructed" /\ ctorArg = RegistryId
    /\ orcidId = "0000-0002-1825-0097"
    /\ \E c \in 1..MaxCalls :
          calls[c].requests = <<"https://pub.orcid.org/v3.0/0000-0002-1825-0097/works">>

(***************************************************************************)
(* Properties of the cache of the client.                                  *)
(***************************************************************************)
InFlight(call) == call.pc \in {"listing", "bulk"}

\* C23: getWorks() calls started while the cache is empty and others are in
\* flight are not merged: each issues its own listing request, then its own bulk
\* request, and returns the works of its own bulk request.
C23_NoSharingOfFetches ==
    [][\A c \in 1..MaxCalls :
          /\ (calls[c].op = "none" /\ calls'[c].op = "getWorks" /\ works = <<>>) =>
                /\ calls'[c].pc = "listing"
                /\ calls'[c].requests = <<ListingUrl(baseURL, orcidId)>>
          /\ (calls[c].op = "getWorks" /\ calls[c].pc = "listing" /\ calls'[c].pc = "bulk") =>
                calls'[c].requests =
                    Append(calls[c].requests, BulkUrl(baseURL, orcidId, calls'[c].codes))
          /\ (calls[c].op = "getWorks" /\ calls[c].pc = "bulk" /\ calls'[c].pc = "resolved") =>
                /\ Len(calls[c].requests) = 2
                /\ calls'[c].result = BulkWorks(BulkBody(calls[c].codes))]_vars

\* two getWorks() calls were in flight together: one has returned its works and
\* filled the cache, the other, started while the cache was empty, has made its
\* own listing request and waits for its own bulk request
C23_Witness ==
    \E c, d \in 1..MaxCalls :
        /\ c # d
        /\ calls[c].op = "getWorks" /\ calls[d].op = "getWorks"
        /\ calls[c].pc = "resolved" /\ Len(calls[c].requests) = 2
        /\ calls[c].result.v # <<>> /\ works = calls[c].result.v
        /\ calls[d].pc = "bulk" /\ Len(calls[d].requests) = 2

\* the timer of the request the call is waiting for fires in this step
TimerWins(c) ==
    /\ calls[c].phase = "fetch"
    /\ calls[c].timers[Len(calls[c].timers)] = "armed"
    /\ calls'[c].timers[Len(calls[c].timers)] = "fired"

\* the response of the request the call is waiting for arrives in this step with
\* the given status
ResponseWins(c, status) ==
    /\ calls[c].phase = "fetch"
    /\ calls[c].response = "pending" /\ calls'[c].response = "arrived"
    /\ calls'[c].status = status

\* C24: when the listing request or the bulk request of a getWorks() call times
\* out or is answered with a non-OK status, the call fails with that error, it
\* returns nothing, and the cache is left as it was: empty as long as no
\* getWorks() call has succeeded.  A getWorks() call made while the cache is
\* empty starts a new fetch.
C24_FailedFetchLeavesCacheEmpty ==
    [][\A c \in 1..MaxCalls :
          /\ (calls[c].op = "getWorks" /\ TimerWins(c)) =>
                /\ calls'[c].pc = "rejected" /\ calls'[c].error = "Request timeout"
                /\ calls'[c].result = Undefined
                /\ works' = works
          /\ (calls[c].op = "getWorks" /\ ResponseWins(c, 500)) =>
                /\ calls'[c].pc = "rejected"
                /\ calls'[c].error = "HTTP error! status: 500"
                /\ calls'[c].result = Undefined
                /\ works' = works
          /\ (\A d \in 1..MaxCalls : ~(calls[d].op = "getWorks" /\ calls[d].pc = "resolved"))
                => works = <<>>
          /\ (calls[c].op = "none" /\ calls'[c].op = "getWorks" /\ works = <<>>) =>
                /\ calls'[c].pc = "listing"
                /\ Len(calls'[c].requests) = 1]_vars

\* a getWorks() call failed on its bulk request with status 500, the cache is
\* empty, and the next getWorks() call has issued a listing request
C24_Witness ==
    \E c, d \in 1..MaxCalls :
        /\ d < c
        /\ calls[d].op = "getWorks" /\ calls[d].pc = "rejected"
        /\ Len(calls[d].requests) = 2 /\ calls[d].error = "HTTP error! status: 500"
        /\ works = <<>>
        /\ calls[c].op = "getWorks" /\ Len(calls[c].requests) >= 1

FetchOperations == {"fetchWorkSummaries", "fetchWithCodes", "fetchWorks"}

\* C25: no step of a fetchWorkSummaries, fetchWithCodes or fetchWorks call,
\* successful or failing, changes the cache, and such a call issues a request
\* whatever the cache holds and returns what the registry answered; the cache
\* changes only when a getWorks() call returns from its fetch.
C25_OnlyGetWorksWritesCache ==
    [][/\ \A c \in 1..MaxCalls :
            /\ (calls'[c].op \in FetchOperations /\ calls'[c] # calls[c]) => works' = works
            /\ (calls[c].op = "none" /\ calls'[c].op \in FetchOperations) =>
                  Len(calls'[c].requests) = 1
            /\ (calls'[c].op \in FetchOperations /\ calls[c].pc # "resolved"
                  /\ calls'[c].pc = "resolved") =>
                  calls'[c].result = IF calls[c].pc = "summaries"
                                     THEN WorkSummaries(FullListing)
                                     ELSE BulkWorks(BulkBody(calls[c].codes))
       /\ works' # works =>
            \E c \in 1..MaxCalls :
                /\ calls[c].op = "getWorks" /\ calls[c].pc = "bulk"
                /\ calls'[c].pc = "resolved" /\ works' = calls'[c].result.v]_vars

\* getWorks() filled the cache, and a later fetchWorks(7) returned a collection
\* that is not the cache, which still holds what getWorks() returned
C25_Witness ==
    \E c, d \in 1..MaxCalls :
        /\ d < c
        /\ calls[d].op = "getWorks" /\ calls[d].pc = "resolved"
        /\ works # <<>> /\ works = calls[d].result.v
        /\ calls[c].op = "fetchWorks" /\ calls[c].arg = Num(7) /\ calls[c].pc = "resolved"
        /\ calls[c].result.v # works

(***************************************************************************)
(* Termination of the calls of the client.                                 *)
(***************************************************************************)
Settled(call) == call.pc \in {"resolved", "rejected"}

\* C26: every call that waits for the registry eventually settles, with a result
\* or an error, once its timers fire: without a complete response (status and
\* parsed body) by then it fails with the timeout error, even when the transport
\* never settles.
C26_EveryCallSettles ==
    \A c \in 1..MaxCalls :
        (calls[c].op # "none") ~> Settled(calls[c])

\* a call is past the status line of its response, the timer of the request
\* has fired, and the call is still waiting for the body
C26_Witness ==
    \E c \in 1..MaxCalls :
        /\ calls[c].op = "fetchWorks" /\ calls[c].pc = "listing"
        /\ calls[c].phase = "json" /\ calls[c].status = 200
        /\ calls[c].timers = <<"fired">>
        /\ ~Settled(calls[c])

\* C28: once the cache holds a collection, no step of any call replaces or
\* changes it, and every getWorks() call made from then on returns it.
C28_PopulatedCacheIsAbsorbing ==
    [][works # <<>> =>
          /\ works' = works
          /\ \A c \in 1..MaxCalls :
                (calls[c].op = "none" /\ calls'[c].op = "getWorks") =>
                    (calls'[c].pc = "resolved" /\ calls'[c].result = Arr(works))]_vars

\* the cache holds what a getWorks() call returned, and a fetchWorks() call made
\* its two requests and returned without changing it
C28_Witness ==
    \E c, d \in 1..MaxCalls :
        /\ c # d
        /\ calls[d].op = "getWorks" /\ calls[d].pc = "resolved"
        /\ works # <<>> /\ works = calls[d].result.v
        /\ calls[c].op = "fetchWorks" /\ calls[c].pc = "resolved"
        /\ Len(calls[c].requests) = 2

\* the put codes of the records fetchWorkSummaries returns for a listing, at
\* most the first 100
SummaryCodes(data) ==
    LET records == WorkSummaries(data).v
        codes == [i \in 1..Len(records) |-> Get(records[i], "putCode")]
    IN  SubSeq(codes, 1, IF Len(codes) < 100 THEN Len(codes) ELSE 100)

\* C29: for one and the same listing response, fetchWorks() without argument
\* asks the bulk endpoint for exactly the put codes of the first 100 records
\* fetchWorkSummaries() returns for it: one code per group, from the group's
\* first summary, in group order.
C29_BulkCodesAreSummaryCodes ==
    [][\A c \in 1..MaxCalls : \A data \in SummaryListings :
          (calls[c].op = "fetchWorks" /\ ListingBody(c, data)) =>
              /\ calls'[c].codes = SummaryCodes(data)
              /\ calls'[c].requests[2] = BulkUrl(baseURL, orcidId, SummaryCodes(data))]_vars

\* fetchWorks() read a listing whose groups have one summary each and asked for
\* the codes 2 and 1, those of the records fetchWorkSummaries returns for it
C29_Witness ==
    \E c \in 1..MaxCalls :
        /\ calls[c].op = "fetchWorks" /\ calls[c].arg = Undefined
        /\ calls[c].codes = <<Num(2), Num(1)>>
        /\ calls[c].requests[2] = "https://pub.orcid.org/v3.0/0000-0002-1825-0097/works/2,1"

(***************************************************************************)
(* Properties of the convenience methods.                                  *)
(***************************************************************************)
\* C27: a convenience method first resolves getWorks(): called on a populated
\* cache it issues no request and takes the cached works, called on the empty
\* cache it starts a fetch.  It returns exactly what the free-standing query
\* utility returns for the works it got (or fails as the utility fails), and no
\* step of a method call changes the contents or order of a populated cache.
C27_MethodsDelegateToUtilities ==
    [][\A c \in 1..MaxCalls :
          /\ (calls[c].op = "none" /\ calls'[c].op \in ConvenienceMethods) =>
                IF works # <<>>
                THEN /\ calls'[c].requests = <<>>
                     /\ calls'[c].pc = "got" /\ calls'[c].result = Arr(works)
                ELSE calls'[c].requests = <<ListingUrl(baseURL, orcidId)>>
          /\ (calls[c].op \in ConvenienceMethods /\ calls[c].pc = "got"
                /\ calls'[c].pc # "got") =>
                LET list == calls[c].result.v
                    arg == calls[c].arg
                    expected ==
                        CASE calls[c].op = "groupBy" -> {groupBy(list, arg.v)}
                          [] calls[c].op = "filterByType" -> {Arr(filterByType(list, arg))}
                          [] calls[c].op = "filterByYearRange" ->
                                {Arr(filterByYearRange(list, arg.v[1], arg.v[2]))}
                          [] calls[c].op = "sortByDate" ->
                                {Arr(r) : r \in SortOutcomes(list, IF arg = Undefined
                                                                   THEN "desc" ELSE arg.v)}
                          [] calls[c].op = "getStats" -> {[t |-> "stats", v |-> getStats(list)]}
                IN  \/ calls'[c].pc = "resolved" /\ calls'[c].result \in expected
                    \/ calls'[c].pc = "rejected" /\ TypeErrorThrown \in expected
          /\ (calls'[c].op \in ConvenienceMethods /\ calls'[c] # calls[c] /\ works # <<>>) =>
                works' = works]_vars

\* the cache is populated, and sortByDate('asc') called on it returned without a
\* request the three cached works in another order than the cache holds them,
\* while the cache is as it was
C27_Witness ==
    \E c, d \in 1..MaxCalls :
        /\ d < c
        /\ calls[d].op \in ConvenienceMethods /\ Len(calls[d].requests) = 2
        /\ Len(works) = 3
        /\ calls[c].op = "sortByDate" /\ calls[c].arg = Str("asc")
        /\ calls[c].pc = "resolved" /\ calls[c].requests = <<>>
        /\ calls[c].result # Arr(works)
        /\ Get(works[1], "putCode") = Num(1)
        /\ Get(works[2], "putCode") = Num(3)
        /\ Get(works[3], "putCode") = Num(2)

====
